---- MODULE Spec2Model ----
(***************************************************************************)
(* A model of the ApiProber discovery orchestrator (discovery/orchestrator *)
(* .py), the strategies it composes, the rate-limited HTTP client and the  *)
(* SQLite store.  One probe() call of one ProbeOrchestrator is modelled as *)
(* a sequential process whose steps are its outbound requests and its      *)
(* budget checks; the remote server, the robots.txt file, the wordlist     *)
(* files and the STOP sentinel file are the environment.                   *)
(***************************************************************************)
EXTENDS Integers, Sequences, FiniteSets, TLC

\* ------------------------------------------------------------------ bounds
\* max_requests is drawn from 0..MaxBudget and the default budget
MaxBudget == 3
\* max_depth is drawn from 0..MaxDepth
MaxDepth == 2
\* at most this many requests of a run end in a transport failure
MaxFailures == 1
\* how many of the well-known specification paths the scanner is given
NumSpecPaths == 3
\* how many upsert_endpoint calls a directly driven store receives
MaxUpserts == 3
\* how many probe() calls one orchestrator serves when it is called again
MaxRuns == 3
\* a directly driven HttpClient: delay_ms is drawn from 0..MaxDelay (ms)
MaxDelay == 2
\* ... other code lets the clock reach MaxClock (ms) between its requests
MaxClock == 5
\* ... and it serves this many requests
MaxClientRequests == 3
\* how many rows a directly driven parameters table may grow to
MaxParamRows == 4
\* ... and a directly driven responses table
MaxResponses == 2
\* how many endpoints directly ingested spec documents may add up to
MaxDocEndpoints == 3
\* ... and how often a document naming the same path is ingested
MaxDocCalls == 2
\* the longest array, and the most keys of an object, given to extract_schema
MaxJsonLen == 2
\* the longest link, in characters after the base URL, given to _normalize_link
MaxLinkLen == 3
\* how many observations a directly driven _process_results is given
MaxResults == 2
\* how many threads call upsert_endpoint at the same time
NumWriters == 2

\* ------------------------------------------------- program constants
DefaultMaxRequests == 500
DefaultDelayMs == 500
DefaultMaxDepth == 3

\* ------------------------------------------------------------ strings
StartsWith(s, p) == Len(s) >= Len(p) /\ SubSeq(s, 1, Len(p)) = p

\* the characters that occur in the model's paths, in code-point order
Alphabet == "#-./0123456789:=?_abcdefghijklmnopqrstuvwxyz"

Ord(c) == CHOOSE i \in 1..Len(Alphabet) : SubSeq(Alphabet, i, i) = c

RECURSIVE StrLess(_, _)
StrLess(a, b) ==
    IF Len(b) = 0 THEN FALSE
    ELSE IF Len(a) = 0 THEN TRUE
    ELSE IF Head(a) = Head(b) THEN StrLess(Tail(a), Tail(b))
    ELSE Ord(Head(a)) < Ord(Head(b))

\* sorted(set_of_strings) / ORDER BY path
RECURSIVE Sorted(_)
Sorted(S) ==
    IF S = {} THEN <<>>
    ELSE LET m == CHOOSE x \in S : \A y \in S \ {x} : StrLess(x, y)
         IN  <<m>> \o Sorted(S \ {m})

Range(f) == {f[i] : i \in DOMAIN f}

\* first-seen order, duplicates dropped
RECURSIVE Dedupe(_, _)
Dedupe(seq, seen) ==
    IF seq = <<>> THEN <<>>
    ELSE IF Head(seq) \in seen THEN Dedupe(Tail(seq), seen)
    ELSE <<Head(seq)>> \o Dedupe(Tail(seq), seen \cup {Head(seq)})

\* ------------------------------------------------------- the environment
BaseUrl == "http://h.io"

\* the site's robots.txt: Disallow prefixes and Crawl-delay (seconds)
RobotsFile == [disallow |-> {"/admin", "/swagger"}, crawl_delay |-> 2]

\* wordlists/<name>: the lines of each wordlist file
WordlistFiles ==
    [common |-> <<"# common REST paths", "/users", "", "/admin", "/users">>]

ConfiguredWordlists == <<"common">>
PatternVersions == <<1>>
PatternResources == <<"users">>

\* response bodies the server can send
SpecBody == "{openapi:3,paths:{/admin:{get:{parameters:[{name:limit,schema:{type:integer}}]}}}}"
UsersBody == "{_links:{next:{href:/users/1}},docs:http://h.io/admin/keys?x=1}"
User1Body == "{id:1,posts:/users/1/posts/}"
HtmlBody == "<html/>"
\* documents that carry a specification key and are not laid out as one
ListPathsBody == "{swagger:2,paths:[]}"
TextInfoBody == "{openapi:3,paths:{},info:demo}"

\* JSON values are tagged records
JStr(s) == [t |-> "string", s |-> s]
JInt == [t |-> "integer"]
JNull == [t |-> "null"]
JObj(kv) == [t |-> "object", kv |-> kv]
JArr(items) == [t |-> "array", items |-> items]
KV(k, v) == [k |-> k, v |-> v]

\* json.loads on the bodies above; anything else does not parse
JsonFails == [t |-> "error"]

JsonLoads(body) ==
    CASE body = SpecBody ->
           JObj(<<KV("openapi", JInt),
                  KV("paths", JObj(<<
                    KV("/admin", JObj(<<
                      KV("get", JObj(<<
                        KV("parameters", JArr(<<
                          JObj(<<KV("name", JStr("limit")),
                                 KV("schema", JObj(<<KV("type", JStr("integer"))>>))>>)
                        >>))>>))>>))>>))>>)
      [] body = UsersBody ->
           JObj(<<KV("_links", JObj(<<KV("next", JObj(<<KV("href", JStr("/users/1"))>>))>>)),
                  KV("docs", JStr("http://h.io/admin/keys?x=1"))>>)
      [] body = User1Body ->
           JObj(<<KV("id", JInt), KV("posts", JStr("/users/1/posts/"))>>)
      [] body = ListPathsBody ->
           JObj(<<KV("swagger", JInt), KV("paths", JArr(<<>>))>>)
      [] body = TextInfoBody ->
           JObj(<<KV("openapi", JInt), KV("paths", JObj(<<>>)), KV("info", JStr("demo"))>>)
      [] OTHER -> JsonFails

Reply(status, body, ctype, www, allow) ==
    [status_code |-> status, body |-> body, content_type |-> ctype,
     www_authenticate |-> www, allow |-> allow, server |-> "nginx"]

\* connection / DNS / TLS failure: status_code 0, nothing else
TransportFailure ==
    [status_code |-> 0, body |-> "", content_type |-> "",
     www_authenticate |-> "", allow |-> "", server |-> ""]

\* what the remote server answers
Serve(path, method) ==
    CASE path = "" -> Reply(200, HtmlBody, "text/html", "", "")
      [] path = "/openapi.json" ->
           IF method = "GET"
           THEN Reply(200, SpecBody, "application/json", "", "")
           ELSE Reply(405, "", "", "", "")
      [] path = "/users" ->
           CASE method = "GET" -> Reply(200, UsersBody, "application/json; charset=utf-8", "", "")
             [] method = "OPTIONS" -> Reply(200, "", "", "", "GET, post")
             [] method = "POST" -> Reply(401, "", "", "Bearer realm=x", "")
             [] OTHER -> Reply(405, "", "", "", "")
      [] path = "/users/1" ->
           CASE method = "GET" -> Reply(200, User1Body, "application/json", "", "")
             [] method = "HEAD" -> Reply(200, "", "application/json", "", "")
             [] OTHER -> Reply(405, "", "", "", "")
      [] StartsWith(path, "/admin") -> Reply(401, "", "", "Bearer realm=x", "")
      [] OTHER -> Reply(404, "", "", "", "")

\* Python's None / SQL NULL where the model's value is otherwise a string
None == "<None>"

\* --------------------------------------------------- JSON value access
\* a JSON string, or None for JSON null
StrOrNone(v) == IF v.t = "null" THEN None ELSE v.s

HasKey(obj, key) == \E i \in DOMAIN obj.kv : obj.kv[i].k = key

GetVal(obj, key) == obj.kv[CHOOSE i \in DOMAIN obj.kv : obj.kv[i].k = key].v

IsDict(v) == v.t = "object"

\* ------------------------------------------------------ core/robots.py
\* RobotsChecker after load(): rules holds the Disallow prefixes that were
\* parsed (none when the fetch failed: parse([]) allows everything)
RobotsLoaded(file) == [rules |-> file.disallow, crawl_delay |-> file.crawl_delay]

RobotsLoadFailed == [rules |-> {}, crawl_delay |-> 0]

is_allowed(checker, path) == ~ \E d \in checker.rules : StartsWith(path, d)

\* `robots_checker and not robots_checker.is_allowed(path)`
RobotsDenies(rb, path) == rb.present /\ ~ is_allowed(rb.checker, path)

\* ------------------------------------------------ discovery/wordlist.py
IsWordlistEntry(line) == line # "" /\ ~ StartsWith(line, "#")

load_wordlist(name) == SelectSeq(WordlistFiles[name], IsWordlistEntry)

RECURSIVE ConcatWordlists(_)
ConcatWordlists(names) ==
    IF names = <<>> THEN <<>>
    ELSE load_wordlist(Head(names)) \o ConcatWordlists(Tail(names))

load_all_wordlists(names) == Dedupe(ConcatWordlists(names), {})

\* ------------------------------------------------- discovery/pattern.py
generate_patterns(versions, resources) ==
    Sorted(
      {"/api/v" \o ToString(versions[v]) \o "/" \o resources[r] :
           v \in DOMAIN versions, r \in DOMAIN resources}
      \cup {"/v" \o ToString(versions[v]) \o "/" \o resources[r] :
           v \in DOMAIN versions, r \in DOMAIN resources}
      \cup {"/" \o resources[r] : r \in DOMAIN resources}
      \cup {"/" \o resources[r] \o "/1" : r \in DOMAIN resources}
      \cup {"/api/" \o resources[r] : r \in DOMAIN resources})

\* ------------------------------------------ discovery/openapi_detect.py
AllSwaggerPaths ==
    <<"/swagger.json", "/openapi.json", "/api-docs",
      "/api-docs.json", "/swagger.yaml", "/openapi.yaml",
      "/docs", "/swagger", "/swagger-ui",
      "/api/swagger.json", "/api/openapi.json",
      "/v1/swagger.json", "/v2/swagger.json",
      "/.well-known/openapi">>

SWAGGER_PATHS == SubSeq(AllSwaggerPaths, 1, NumSpecPaths)

\* a scanner that knows Swagger 2 documents only
_try_parse_spec_SwaggerOnly(body) ==
    LET data == JsonLoads(body)
    IN  IF data # JsonFails /\ IsDict(data) /\ HasKey(data, "swagger")
        THEN data
        ELSE JsonFails

\* the parsed document when the body is a mapping with one of the keys
_try_parse_spec(body) ==
    LET data == JsonLoads(body)
    IN  IF data # JsonFails /\ IsDict(data)
           /\ (HasKey(data, "paths") \/ HasKey(data, "swagger") \/ HasKey(data, "openapi"))
        THEN data
        ELSE JsonFails

SpecMethodKeys == <<"get", "head", "post", "put", "patch", "delete", "options">>

Upper(m) ==
    CASE m = "get" -> "GET" [] m = "head" -> "HEAD" [] m = "post" -> "POST"
      [] m = "put" -> "PUT" [] m = "patch" -> "PATCH" [] m = "delete" -> "DELETE"
      [] m = "options" -> "OPTIONS" [] OTHER -> m

\* one entry of a `parameters` list
SpecParam(param) ==
    [name |-> IF HasKey(param, "name") THEN GetVal(param, "name").s ELSE "",
     location |-> IF HasKey(param, "in") THEN StrOrNone(GetVal(param, "in")) ELSE "query",
     required |-> IF HasKey(param, "required") THEN GetVal(param, "required").b ELSE FALSE,
     type |-> IF HasKey(param, "type") THEN GetVal(param, "type").s
              ELSE IF HasKey(param, "schema") /\ HasKey(GetVal(param, "schema"), "type")
                   THEN GetVal(GetVal(param, "schema"), "type").s
                   ELSE "string"]

SpecParamsOf(obj) ==
    IF IsDict(obj) /\ HasKey(obj, "parameters")
    THEN LET lst == SelectSeq(GetVal(obj, "parameters").items, IsDict)
         IN  [i \in DOMAIN lst |-> SpecParam(lst[i])]
    ELSE <<>>

RECURSIVE _dedupe_params(_, _)
_dedupe_params(params, seen) ==
    IF params = <<>> THEN <<>>
    ELSE LET key == <<Head(params).name, Head(params).location>>
         IN  IF key \in seen THEN _dedupe_params(Tail(params), seen)
             ELSE <<Head(params)>> \o _dedupe_params(Tail(params), seen \cup {key})

RECURSIVE OpParams(_, _)
OpParams(methods_obj, keys) ==
    IF keys = <<>> THEN <<>>
    ELSE (IF HasKey(methods_obj, Head(keys))
          THEN SpecParamsOf(GetVal(methods_obj, Head(keys)))
          ELSE <<>>) \o OpParams(methods_obj, Tail(keys))

SpecEndpoint(base_path, entry) ==
    LET present(k) == HasKey(entry.v, k)
        keys == SelectSeq(SpecMethodKeys, present)
    IN  [path |-> IF base_path # "" THEN base_path \o entry.k ELSE entry.k,
         methods |-> {Upper(keys[i]) : i \in DOMAIN keys},
         parameters |-> _dedupe_params(
             OpParams(entry.v, SpecMethodKeys) \o SpecParamsOf(entry.v), {})]

extract_endpoints_from_spec(spec) ==
    LET paths == IF HasKey(spec, "paths") THEN GetVal(spec, "paths").kv ELSE <<>>
        base_path == IF HasKey(spec, "basePath") THEN GetVal(spec, "basePath").s ELSE ""
        isOps(entry) == IsDict(entry.v)
                        /\ \E i \in DOMAIN SpecMethodKeys : HasKey(entry.v, SpecMethodKeys[i])
        kept == SelectSeq(paths, isOps)
    IN  [i \in DOMAIN kept |-> SpecEndpoint(base_path, kept[i])]

\* --------------------------------------------- core/schema_extractor.py
RECURSIVE _walk_for_links(_, _)
_walk_for_links(data, base_url) ==
    CASE data.t = "string" ->
           IF StartsWith(data.s, "http://") \/ StartsWith(data.s, "https://")
           THEN IF base_url # "" /\ StartsWith(data.s, base_url) THEN {data.s} ELSE {}
           ELSE IF StartsWith(data.s, "/") /\ ~ StartsWith(data.s, "//")
                THEN {data.s} ELSE {}
      [] data.t = "object" ->
           UNION {_walk_for_links(data.kv[i].v, base_url) : i \in DOMAIN data.kv}
      [] data.t = "array" ->
           UNION {_walk_for_links(data.items[i], base_url) :
                      i \in {j \in DOMAIN data.items : j <= 50}}
      [] OTHER -> {}

\* JSON values whose own value the schema does not read
JBool == [t |-> "boolean"]
JFloat == [t |-> "number"]
\* an integer with its value
JInteger(n) == [t |-> "integer", n |-> n]

RECURSIVE extract_schema(_)
\* a schema that names the type and nothing else
extract_schema_TypeOnly(data) == JObj(<<KV("type", JStr(data.t))>>)

\* lines 9-47
extract_schema(data) ==
    CASE data.t = "null" -> JObj(<<KV("type", JStr("null"))>>)
      [] data.t = "boolean" -> JObj(<<KV("type", JStr("boolean"))>>)
      [] data.t = "integer" -> JObj(<<KV("type", JStr("integer"))>>)
      [] data.t = "number" -> JObj(<<KV("type", JStr("number"))>>)
      [] data.t = "string" ->
           JObj(<<KV("type", JStr("string"))>>
                \o IF Len(data.s) > 0
                   THEN <<KV("example_length", JInteger(Len(data.s)))>> ELSE <<>>)
      [] data.t = "array" ->
           JObj(<<KV("type", JStr("array")), KV("length", JInteger(Len(data.items)))>>
                \o IF Len(data.items) > 0
                   THEN <<KV("items", extract_schema(data.items[1]))>> ELSE <<>>)
      [] data.t = "object" ->
           JObj(<<KV("type", JStr("object")),
                  KV("properties",
                     JObj([i \in 1..Len(data.kv) |->
                             KV(data.kv[i].k, extract_schema(data.kv[i].v))])),
                  KV("field_count", JInteger(Len(data.kv)))>>)
      [] OTHER -> JObj(<<KV("type", JStr("unknown"))>>)

\* truthiness of extract_schema_from_body(body): a non-empty schema
HasSchema(body) == body # "" /\ JsonLoads(body) # JsonFails

\* extract_params_from_error: the names the four patterns find; the
\* server's bodies carry no such message
extract_params_from_error(body) == <<>>

\* -------------------------------------- discovery/response_driven.py
\* s.split(c)[0]
RECURSIVE Before(_, _)
Before(s, c) ==
    IF s = "" THEN ""
    ELSE IF Head(s) = c THEN ""
    ELSE Head(s) \o Before(Tail(s), c)

RECURSIVE RStrip(_, _)
RStrip(s, c) ==
    IF s # "" /\ SubSeq(s, Len(s), Len(s)) = c
    THEN RStrip(SubSeq(s, 1, Len(s) - 1), c)
    ELSE s

\* a normalisation that drops one trailing slash only
_normalize_link_OneSlash(link, base_url) ==
    LET l1 == IF StartsWith(link, base_url)
              THEN SubSeq(link, Len(base_url) + 1, Len(link)) ELSE link
        l2 == IF ~ StartsWith(l1, "/") THEN "/" \o l1 ELSE l1
        l4 == Before(Before(l2, "?"), "#")
    IN  IF l4 # "/" /\ l4 # "" /\ SubSeq(l4, Len(l4), Len(l4)) = "/"
        THEN SubSeq(l4, 1, Len(l4) - 1) ELSE l4

\* "" stands for None
_normalize_link(link, base_url) ==
    LET l1 == IF StartsWith(link, base_url)
              THEN SubSeq(link, Len(base_url) + 1, Len(link)) ELSE link
        l2 == IF ~ StartsWith(l1, "/") THEN "/" \o l1 ELSE l1
        l3 == Before(l2, "?")
        l4 == Before(l3, "#")
        l5 == IF l4 # "/" /\ l4 # "" /\ SubSeq(l4, Len(l4), Len(l4)) = "/"
              THEN RStrip(l4, "/") ELSE l4
    IN  l5

\* ---------------------------------------------------- core/database.py
\* a merge that overwrites instead of extending
MergeSetOverwrite(old, new) == IF new # {} THEN new ELSE old

MergeSet(old, new) == old \cup new

\* a flag that takes the incoming value
AuthOverwrite(old, incoming) == incoming

\* `auth_required = CASE WHEN ? THEN 1 ELSE auth_required END`
AuthLatch(old, incoming) == IF incoming THEN TRUE ELSE old

\* a hint that is written once and then kept
HintKeepFirst(old, incoming) == IF old # "" THEN old ELSE incoming

\* `auth_type_hint = CASE WHEN ? != '' THEN ? ELSE auth_type_hint END`
HintMerge(old, incoming) == IF incoming # "" THEN incoming ELSE old

\* an UPDATE that also sets discovered_by to the caller's tag
upsert_endpoint_Retagging(eps, path, methods, status_codes, auth_required, auth_type_hint, content_types, discovered_by) ==
    IF path \in DOMAIN eps
    THEN [eps EXCEPT ![path] =
            [@ EXCEPT !.methods = MergeSet(@, methods),
                      !.status_codes = MergeSet(@, status_codes),
                      !.content_types = MergeSet(@, content_types),
                      !.auth_required = AuthLatch(@, auth_required),
                      !.auth_type_hint = HintMerge(@, auth_type_hint),
                      !.discovered_by = discovered_by]]
    ELSE (path :> [methods |-> methods,
                   status_codes |-> status_codes,
                   auth_required |-> auth_required,
                   auth_type_hint |-> auth_type_hint,
                   content_types |-> content_types,
                   discovered_by |-> discovered_by]) @@ eps

upsert_endpoint(eps, path, methods, status_codes, auth_required, auth_type_hint, content_types, discovered_by) ==
    IF path \in DOMAIN eps
    THEN [eps EXCEPT ![path] =
            [@ EXCEPT !.methods = MergeSet(@, methods),
                      !.status_codes = MergeSet(@, status_codes),
                      !.content_types = MergeSet(@, content_types),
                      !.auth_required = AuthLatch(@, auth_required),
                      !.auth_type_hint = HintMerge(@, auth_type_hint)]]
    ELSE (path :> [methods |-> methods,
                   status_codes |-> status_codes,
                   auth_required |-> auth_required,
                   auth_type_hint |-> auth_type_hint,
                   content_types |-> content_types,
                   discovered_by |-> discovered_by]) @@ eps

\* get_endpoints: the paths of the rows, ORDER BY path
get_endpoints(eps) == Sorted(DOMAIN eps)

\* `required = CASE WHEN excluded.required THEN 1 ELSE parameters.required END`
RequiredLatch(old, incoming) == IF incoming THEN TRUE ELSE old

\* UNIQUE(endpoint_id, name, location): SQLite holds a NULL to be distinct
\* from every value, another NULL included, so a row with a NULL in the
\* key conflicts with nothing
Conflicts(row, endpoint, name, location) ==
    /\ row.location # None /\ location # None
    /\ row.endpoint = endpoint /\ row.name = name /\ row.location = location

\* INSERT ... ON CONFLICT(endpoint_id, name, location) DO UPDATE; the table
\* is the sequence of its rows
upsert_parameter(params, endpoint, name, param_type, location, required) ==
    IF \E i \in DOMAIN params : Conflicts(params[i], endpoint, name, location)
    THEN [i \in DOMAIN params |->
            IF Conflicts(params[i], endpoint, name, location)
            THEN [params[i] EXCEPT !.param_type = param_type,
                                   !.required = RequiredLatch(@, required)]
            ELSE params[i]]
    ELSE Append(params, [endpoint |-> endpoint, name |-> name, location |-> location,
                         param_type |-> param_type, required |-> required])

\* body_sample[:2048]
SampleLimit == 2048

\* a response row keeps the whole sample, whatever its length
TruncateNever(body) == body

Truncate(body) == IF Len(body) > SampleLimit THEN SubSeq(body, 1, SampleLimit) ELSE body

add_response(rows, endpoint, method, status_code, body_sample, content_type) ==
    Append(rows, [endpoint |-> endpoint, method |-> method, status_code |-> status_code,
                  body_sample |-> Truncate(body_sample), content_type |-> content_type])

TerminalStatuses == {"completed", "stopped", "error"}

\* a probe_runs row after create_probe_run(service_id, config)
NewRun(cfg) == [status |-> "running", finished |-> FALSE, total_requests |-> 0, endpoints_found |-> 0, config_json |-> cfg]

\* an update that stamps finished_at only on completion
update_probe_run_CompletedOnly(run, status, total_requests, endpoints_found) ==
    [status |-> status,
     finished |-> IF status = "completed" THEN TRUE ELSE run.finished,
     total_requests |-> total_requests,
     endpoints_found |-> endpoints_found,
     config_json |-> run.config_json]

\* update_probe_run(status=...) and, when given, the counters
update_probe_run(run, status, total_requests, endpoints_found) ==
    [status |-> status,
     finished |-> IF status \in TerminalStatuses THEN TRUE ELSE run.finished,
     total_requests |-> total_requests,
     endpoints_found |-> endpoints_found,
     config_json |-> run.config_json]

\* ------------------------------------------------- header handling
Uppers == "ABCDEFGHIJKLMNOPQRSTUVWXYZ"
Lowers == "abcdefghijklmnopqrstuvwxyz"

MapChar(c, from, to) ==
    IF \E i \in 1..Len(from) : SubSeq(from, i, i) = c
    THEN LET i == CHOOSE j \in 1..Len(from) : SubSeq(from, j, j) = c
         IN  SubSeq(to, i, i)
    ELSE c

RECURSIVE MapStr(_, _, _)
MapStr(s, from, to) ==
    IF s = "" THEN "" ELSE MapChar(Head(s), from, to) \o MapStr(Tail(s), from, to)

Lower(s) == MapStr(s, Uppers, Lowers)
UpperStr(s) == MapStr(s, Lowers, Uppers)

Contains(s, sub) ==
    \E i \in 1..(Len(s) - Len(sub) + 1) : SubSeq(s, i, i + Len(sub) - 1) = sub

RECURSIVE LStrip(_, _)
LStrip(s, c) == IF s # "" /\ Head(s) = c THEN LStrip(Tail(s), c) ELSE s

Strip(s) == LStrip(RStrip(s, " "), " ")

RECURSIVE Remove(_, _)
Remove(s, c) ==
    IF s = "" THEN ""
    ELSE IF Head(s) = c THEN Remove(Tail(s), c)
    ELSE Head(s) \o Remove(Tail(s), c)

\* s.split(c), as a set of the pieces
RECURSIVE Pieces(_, _)
Pieces(s, c) ==
    LET first == Before(s, c)
    IN  IF Len(first) = Len(s) THEN {first}
        ELSE {first} \cup Pieces(SubSeq(s, Len(first) + 2, Len(s)), c)

\* content_type.split(";")[0].strip(), as the list the callers build
ContentTypes(content_type) ==
    IF content_type # "" /\ Strip(Before(content_type, ";")) # ""
    THEN {Strip(Before(content_type, ";"))} ELSE {}

\* ------------------------------------------------ core/http_client.py
Resp(method, reply) ==
    [method |-> method, status_code |-> reply.status_code, body |-> reply.body,
     content_type |-> reply.content_type, www_authenticate |-> reply.www_authenticate,
     allow |-> reply.allow, server |-> reply.server]

\* a response counts as successful whenever it has a status
okWithAnyStatus(resp) == resp.status_code > 0

ok(resp) == 200 <= resp.status_code /\ resp.status_code < 400

\* -------------------------------------------- discovery/method_tester.py
SAFE_METHODS == <<"GET", "HEAD", "OPTIONS">>
ALL_METHODS == <<"GET", "HEAD", "OPTIONS", "POST", "PUT", "PATCH", "DELETE">>

\* a tester that ignores skip_destructive
MethodsToTestAll(skip_destructive) == ALL_METHODS

MethodsToTest(skip_destructive) == IF skip_destructive THEN SAFE_METHODS ELSE ALL_METHODS

\* the locals of test_methods before its loop
TestMethodsStart(path, skip_destructive) ==
    [path |-> path, todo |-> MethodsToTest(skip_destructive), supported |-> {},
     status_codes |-> {}, auth_required |-> FALSE, auth_type_hint |-> "",
     allow_header |-> "", content_types |-> {}]

NoTest ==
    [path |-> "", todo |-> <<>>, supported |-> {}, status_codes |-> {},
     auth_required |-> FALSE, auth_type_hint |-> "", allow_header |-> "",
     content_types |-> {}]

\* a hint that is always the first token of the header, as it stands
AuthHintOfFirstToken(www_auth) == Before(LStrip(www_auth, " "), " ")

\* lines 66-75
AuthHintOf(www_auth) ==
    IF Contains(Lower(www_auth), "bearer") THEN "bearer"
    ELSE IF Contains(Lower(www_auth), "basic") THEN "basic"
    ELSE IF Contains(Lower(www_auth), "api") THEN "api_key"
    ELSE Before(LStrip(www_auth, " "), " ")

AllowTokens(allow_header) ==
    {UpperStr(Strip(m)) : m \in Pieces(Remove(allow_header, " "), ",")} \ {""}

\* a loop body without the `continue` on a failed request
TestMethodsStepCountsFailures(t, method, resp) ==
    [t EXCEPT
       !.todo = Tail(@),
       !.status_codes = @ \cup {<<method, resp.status_code>>},
       !.supported = @ \cup (IF resp.status_code \notin {404, 405, 501} THEN {method} ELSE {})]

\* one pass of the loop body of test_methods, for the response to `method`
TestMethodsStep(t, method, resp) ==
    IF resp.status_code = 0
    THEN [t EXCEPT !.todo = Tail(@)]
    ELSE [t EXCEPT
            !.todo = Tail(@),
            !.status_codes = @ \cup {<<method, resp.status_code>>},
            !.allow_header = IF method = "OPTIONS" /\ resp.allow # "" THEN resp.allow ELSE @,
            !.supported =
                (@ \cup (IF method = "OPTIONS" /\ resp.allow # ""
                         THEN AllowTokens(resp.allow) ELSE {}))
                \cup (IF resp.status_code \notin {404, 405, 501} THEN {method} ELSE {}),
            !.auth_required = IF resp.status_code \in {401, 403} THEN TRUE ELSE @,
            !.auth_type_hint =
                IF resp.status_code \in {401, 403} /\ resp.www_authenticate # ""
                THEN AuthHintOf(resp.www_authenticate) ELSE @,
            !.content_types = @ \cup ContentTypes(resp.content_type)]

\* --------------------------------------------- discovery/orchestrator.py
Strategies == {"openapi", "wordlist", "pattern", "response_driven"}

\* the strategy whose presence a phase asks for ("" when it asks for none)
StrategyOf(phase) ==
    CASE phase = 1 -> "openapi" [] phase = 2 -> "wordlist" [] phase = 3 -> "pattern"
      [] phase = 6 -> "response_driven" [] OTHER -> ""

\* the auth hint _process_results derives
ResultAuthHint(resp) ==
    IF resp.status_code \in {401, 403}
    THEN IF Contains(Lower(resp.www_authenticate), "bearer") THEN "bearer"
         ELSE IF Contains(Lower(resp.www_authenticate), "basic") THEN "basic"
         ELSE ""
    ELSE ""

\* the union of everything upsert_endpoint was ever given for a path, and
\* the number of calls that gave it
Supply(sup, path, methods, status_codes, content_types) ==
    LET old == IF path \in DOMAIN sup THEN sup[path]
               ELSE [methods |-> {}, status_codes |-> {}, content_types |-> {},
                     calls |-> 0]
    IN  (path :> [methods |-> old.methods \cup methods,
                  status_codes |-> old.status_codes \cup status_codes,
                  content_types |-> old.content_types \cup content_types,
                  calls |-> old.calls + 1]) @@ sup

\* history: the auth arguments of the latest upsert_endpoint call on a path
SupplyLatest(sup, path, auth_required, auth_type_hint) ==
    [sup EXCEPT ![path] =
        [last_auth |-> auth_required, last_hint |-> auth_type_hint] @@ @]

\* _process_results over a list of (path, resp); db is the record of the
\* endpoint table, the response table and the history of supplied values
RECURSIVE _process_results(_, _, _)
_process_results(db, res, discovered_by) ==
    IF res = <<>> THEN db
    ELSE LET path == Head(res)[1]
             resp == Head(res)[2]
             cts == ContentTypes(resp.content_type)
             ms == IF resp.method # "" THEN {resp.method} ELSE {}
             db1 == [endpoints |-> upsert_endpoint(db.endpoints, path, ms,
                                      {resp.status_code},
                                      resp.status_code \in {401, 403},
                                      ResultAuthHint(resp), cts, discovered_by),
                     responses |-> IF resp.body # "" /\ ok(resp)
                                   THEN add_response(db.responses, path,
                                            IF resp.method # "" THEN resp.method ELSE "GET",
                                            resp.status_code, resp.body, resp.content_type)
                                   ELSE db.responses,
                     supplied |-> Supply(db.supplied, path, ms, {resp.status_code}, cts)]
         IN  _process_results(db1, Tail(res), discovered_by)

\* ================================================================ state
VARIABLES
    config,         \* the orchestrator's configuration
    stop,           \* the STOP sentinel file exists
    call,           \* a function called on its own: its name, argument and result
    threads,        \* the threads that call the Database at the same time, and their locals
    request_count,  \* HttpClient._request_count
    delay_ms,       \* HttpClient.delay_ms
    now,            \* time.monotonic(), in ms
    _last_request_time, \* HttpClient._last_request_time, in ms (0: no request yet)
    service,        \* the services row of the base URL
    endpoints,      \* endpoints table: path -> row
    responses,      \* responses table, in insertion order
    parameters,     \* parameters table, in insertion order
    runs,           \* probe_runs table, in insertion order
    pc,             \* where probe() stands
    robots,         \* probe's `robots` local
    known_paths,    \* probe's `known_paths` set
    known,          \* the running strategy's `known` (`known_paths or set()`)
    shared,         \* `known` is the very set object `known_paths`
    queue,          \* the paths the current loop has still to visit
    snapshot,       \* the endpoint rows phase 5 read when it started
    results,        \* the `results` / `round_results` list of the current strategy
    all_results,    \* discover_from_responses' `all_results`
    depth,          \* discover_from_responses' round counter
    tm,             \* the locals of the running test_methods call
    ret,            \* what probe() returned
    lastReq,        \* history: the last request issued (phase, method, path, status)
    supplied,       \* history: per path, all values given to upsert_endpoint
    cut,            \* history: a budget / STOP check of this run answered "halt"
    failures,       \* history: number of transport failures so far
    raised,         \* history: the last call of request() raised instead of returning
    first_run,      \* history: the endpoints table when probe() was called a second time
    skipped,        \* history: phases whose start found its strategy absent or the budget spent
    active,         \* history: phases that issued a request or wrote to the store
    asked           \* history: the paths the running link-following phase has requested

clientVars == <<request_count, delay_ms, now, _last_request_time>>
storeVars == <<service, endpoints, responses, parameters, runs>>
localVars == <<pc, robots, known_paths, known, shared, queue, snapshot, results, all_results, depth, tm, ret>>
histVars == <<lastReq, supplied, cut, failures, raised, first_run, skipped, active, asked>>
vars == <<config, stop, call, threads, clientVars, storeVars, localVars, histVars>>

\* probe() stands at a label of a phase
At(label, phase) == <<label, phase>>

Gate(phase) == At("gate", phase)

NoRobots == [present |-> FALSE, loaded |-> FALSE, checker |-> RobotsLoadFailed]
NoReturn == [kind |-> "none"]
NoRequest == [phase |-> -1, method |-> "", path |-> "", status_code |-> -1]
NoCall == [fn |-> "", arg |-> "", out |-> ""]
EmptyMap == <<>>

Configs ==
    [max_requests : (0..MaxBudget) \cup {DefaultMaxRequests},
     max_depth : 0..MaxDepth,
     delay_ms : {DefaultDelayMs},
     skip_destructive : BOOLEAN,
     respect_robots_txt : BOOLEAN,
     strategies : SUBSET Strategies]

\* an empty database, a fresh HttpClient and probe() not yet called
Fresh ==
    /\ stop = FALSE
    /\ call = NoCall
    /\ threads = <<>>
    /\ request_count = 0
    /\ delay_ms = config.delay_ms
    /\ now = 1
    /\ _last_request_time = 0
    /\ service = [exists |-> FALSE, server_header |-> "", robots_txt |-> FALSE,
                  metadata |-> FALSE, last_probed |-> FALSE]
    /\ endpoints = EmptyMap
    /\ responses = <<>>
    /\ parameters = EmptyMap
    /\ runs = <<>>
    /\ pc = At("start", 0)
    /\ robots = NoRobots
    /\ known_paths = {}
    /\ known = {}
    /\ shared = FALSE
    /\ queue = <<>>
    /\ snapshot = EmptyMap
    /\ results = <<>>
    /\ all_results = <<>>
    /\ depth = 0
    /\ tm = NoTest
    /\ ret = NoReturn
    /\ lastReq = NoRequest
    /\ asked = {}
    /\ supplied = EmptyMap
    /\ cut = FALSE
    /\ failures = 0
    /\ raised = FALSE
    /\ first_run = EmptyMap
    /\ skipped = {}
    /\ active = {}

\* a constructed ProbeOrchestrator over an empty database
Init == config \in Configs /\ Fresh

\* ------------------------------------------------------ the environment
\* somebody creates the STOP file
CreateStop ==
    /\ ~ stop
    /\ pc # At("done", 7)
    /\ stop' = TRUE
    /\ UNCHANGED <<config, call, threads, clientVars, storeVars, localVars, histVars>>

\* the answers a request can get: the server's, or a transport failure
Replies(path, method) ==
    {Serve(path, method)}
    \cup (IF failures < MaxFailures THEN {TransportFailure} ELSE {})

\* a limiter that never waits
NoRemaining(elapsed) == 0

\* _rate_limit: `remaining = self.delay_ms - elapsed`
Remaining(elapsed) == delay_ms - elapsed

\* HttpClient._rate_limit: sleep for what remains of delay_ms since the
\* last stamp, then stamp; time.sleep returns exactly on time
_rate_limit ==
    LET remaining == IF _last_request_time > 0
                     THEN Remaining(now - _last_request_time) ELSE 0
        woken == IF remaining > 0 THEN now + remaining ELSE now
    IN  /\ now' = woken
        /\ _last_request_time' = woken

\* urllib's Request(url) (line 89, before the try block) raises ValueError
\* "unknown url type" unless the URL begins with `<scheme>:`
RequestRaises(url) ==
    ~ (Contains(Before(url, "/"), ":") /\ Before(url, ":") # "")

\* HttpClient.request with a URL urllib accepts: rate limit, then the
\* counter moves when the outbound call begins; every outcome of urlopen
\* comes back as a response record
HttpRequest(reply) ==
    /\ _rate_limit
    /\ request_count' = request_count + 1
    /\ failures' = IF reply.status_code = 0 THEN failures + 1 ELSE failures
    /\ raised' = FALSE

\* a request of probe(): between two requests the orchestrator's own work
\* takes no time on the model's clock
Issued(phase, method, path, reply) ==
    /\ HttpRequest(reply)
    /\ lastReq' = [phase |-> phase, method |-> method, path |-> path,
                   status_code |-> reply.status_code]
    /\ active' = active \cup {phase}
    /\ asked' = IF phase = 6 THEN asked \cup {path} ELSE asked

\* ------------------------------------------------------ budget and stop
_check_limits == request_count >= config.max_requests \/ stop

\* `max_requests and client.request_count >= max_requests`
LoopBudgetSpent == config.max_requests # 0 /\ request_count >= config.max_requests

\* a gate that forgets the strategy list
PhaseEnabledAnyStrategy(phase) == ~ _check_limits

\* the condition under which a phase runs
PhaseEnabled(phase) ==
    /\ StrategyOf(phase) # "" => StrategyOf(phase) \in config.strategies
    /\ ~ _check_limits

\* a sequencing that runs method probing before pattern probing
NextPhaseSwapped(phase) ==
    CASE phase = 2 -> 4 [] phase = 4 -> 3 [] phase = 3 -> 5 [] OTHER -> phase + 1

NextPhase(phase) == phase + 1

\* history kept at the start of a phase
GateHistory(phase) ==
    /\ skipped' = IF (StrategyOf(phase) # "" /\ StrategyOf(phase) \notin config.strategies)
                     \/ request_count >= config.max_requests
                  THEN skipped \cup {phase} ELSE skipped
    /\ cut' = (cut \/ ((StrategyOf(phase) # "" => StrategyOf(phase) \in config.strategies)
                       /\ _check_limits))

\* a delay that takes the crawl delay and forgets the configured one
EffectiveDelayCrawlOnly(configured, crawl_delay) == crawl_delay * 1000

\* line 72: max(self.config["delay_ms"], int(crawl_delay * 1000))
EffectiveDelay(configured, crawl_delay) ==
    IF configured >= crawl_delay * 1000 THEN configured ELSE crawl_delay * 1000

\* ------------------------------------------------------------- probe()
\* lines 41-77: service row, run row, known paths, robots.txt
StartProbe ==
    /\ pc = At("start", 0)
    /\ runs' = Append(runs, NewRun(config))
    /\ known_paths' = DOMAIN endpoints
    /\ \E loaded \in BOOLEAN :
         IF config.respect_robots_txt
         THEN /\ robots' = [present |-> TRUE, loaded |-> loaded,
                            checker |-> IF loaded THEN RobotsLoaded(RobotsFile)
                                        ELSE RobotsLoadFailed]
              /\ service' = [service EXCEPT !.exists = TRUE,
                                            !.robots_txt = (@ \/ loaded)]
              /\ delay_ms' = IF loaded /\ RobotsFile.crawl_delay # 0
                             THEN EffectiveDelay(config.delay_ms, RobotsFile.crawl_delay)
                             ELSE delay_ms
         ELSE /\ loaded = FALSE
              /\ robots' = NoRobots
              /\ service' = [service EXCEPT !.exists = TRUE]
              /\ delay_ms' = delay_ms
    /\ pc' = At("base", 0)
    /\ UNCHANGED <<config, stop, call, threads, request_count, now, _last_request_time, endpoints,
                   responses, parameters, known, shared, queue, snapshot, results,
                   all_results, depth, tm, ret, histVars>>

\* a base probe that takes a failed request for an answer
BaseReachableAlways(resp) == resp.status_code >= 0

\* line 82: `if base_resp.status_code > 0`
BaseReachable(resp) == resp.status_code > 0

\* a failed base probe that writes `error` and carries on with phase 1
AfterBaseFailureFallsThrough == Gate(1)

\* line 92: `return {"error": ...}` leaves probe()
AfterBaseFailure == At("done", 7)

\* lines 79-93: GET base_url
BaseProbe ==
    /\ pc = At("base", 0)
    /\ \E reply \in Replies("", "GET") :
         /\ Issued(0, "GET", "", reply)
         /\ IF BaseReachable(Resp("GET", reply))
            THEN /\ service' = [service EXCEPT !.server_header =
                                   IF reply.server # "" THEN reply.server ELSE @]
                 /\ pc' = Gate(1)
                 /\ UNCHANGED <<runs, ret>>
            ELSE /\ runs' = [runs EXCEPT ![Len(runs)] =
                               update_probe_run(@, "error", @.total_requests,
                                                @.endpoints_found)]
                 /\ ret' = [kind |-> "error"]
                 /\ pc' = AfterBaseFailure
                 /\ UNCHANGED service
    /\ UNCHANGED <<config, stop, call, threads, first_run, delay_ms, endpoints, responses, parameters, robots,
                   known_paths, known, shared, queue, snapshot, results, all_results, depth, tm,
                   supplied, cut, skipped>>

\* --------------------------------------------------- phase 1: spec scan
Phase1Gate ==
    /\ pc = Gate(1)
    /\ GateHistory(1)
    /\ IF PhaseEnabled(1)
       THEN pc' = At("scan", 1) /\ queue' = SWAGGER_PATHS
       ELSE pc' = Gate(NextPhase(1)) /\ queue' = queue
    /\ UNCHANGED <<config, stop, call, threads, first_run, clientVars, storeVars, robots, known_paths, known, shared, snapshot,
                   results, all_results, depth, tm, ret, lastReq, asked, supplied, failures, raised,
                   active>>

\* detect_openapi: a path robots.txt denies is passed over
SpecScanSkip ==
    /\ pc = At("scan", 1)
    /\ queue # <<>>
    /\ RobotsDenies(robots, Head(queue))
    /\ queue' = Tail(queue)
    /\ UNCHANGED <<config, stop, call, threads, clientVars, storeVars, pc, robots, known_paths, known, shared, snapshot,
                   results, all_results, depth, tm, ret, histVars>>

\* the endpoints and parameters of a found spec, upserted in order
RECURSIVE IngestParams(_, _, _)
IngestParams(params, path, lst) ==
    IF lst = <<>> THEN params
    ELSE IngestParams(
             upsert_parameter(params, path, Head(lst).name, Head(lst).type,
                              Head(lst).location, Head(lst).required),
             path, Tail(lst))

RECURSIVE IngestSpec(_, _)
IngestSpec(db, eps) ==
    IF eps = <<>> THEN db
    ELSE LET ep == Head(eps)
         IN  IngestSpec(
               [endpoints |-> upsert_endpoint(db.endpoints, ep.path, ep.methods, {},
                                              FALSE, "", {}, "openapi"),
                parameters |-> IngestParams(db.parameters, ep.path, ep.parameters),
                supplied |-> Supply(db.supplied, ep.path, ep.methods, {}, {}),
                known |-> db.known \cup {ep.path}],
               Tail(eps))

\* `paths.items()` of a `paths` that is no mapping raises AttributeError
\* (openapi_detect.py 56, 62)
ExtractRaises(spec) == HasKey(spec, "paths") /\ ~ IsDict(GetVal(spec, "paths"))

\* `spec["info"].get(...)` of an `info` that is no mapping raises
\* AttributeError (orchestrator.py 130-133), after the endpoints are stored
MetadataRaises(spec) == HasKey(spec, "info") /\ ~ IsDict(GetVal(spec, "info"))

\* client.get(url) of the next path; a match ends the scan and is ingested
\* (orchestrator.py 108-134). `served` is what the site may send besides
\* Replies.
SpecScanGet(served) ==
    /\ pc = At("scan", 1)
    /\ queue # <<>>
    /\ ~ RobotsDenies(robots, Head(queue))
    /\ \E reply \in Replies(Head(queue), "GET") \cup served :
         LET resp == Resp("GET", reply)
             spec == IF ok(resp) /\ resp.body # "" THEN _try_parse_spec(resp.body)
                     ELSE JsonFails
         IN  /\ Issued(1, "GET", Head(queue), reply)
             /\ IF spec = JsonFails
                THEN /\ queue' = Tail(queue)
                     /\ UNCHANGED <<endpoints, parameters, supplied, known_paths,
                                    service, pc, ret>>
                ELSE IF ExtractRaises(spec)
                THEN \* the exception leaves probe(): no line of it handles one
                     /\ pc' = At("raised", 1)
                     /\ ret' = [kind |-> "raised"]
                     /\ queue' = <<>>
                     /\ UNCHANGED <<endpoints, parameters, supplied, known_paths, service>>
                ELSE LET db == IngestSpec([endpoints |-> endpoints,
                                           parameters |-> parameters,
                                           supplied |-> supplied,
                                           known |-> known_paths],
                                          extract_endpoints_from_spec(spec))
                     IN  /\ endpoints' = db.endpoints
                         /\ parameters' = db.parameters
                         /\ supplied' = db.supplied
                         /\ known_paths' = db.known
                         /\ queue' = <<>>
                         /\ IF MetadataRaises(spec)
                            THEN /\ pc' = At("raised", 1)
                                 /\ ret' = [kind |-> "raised"]
                                 /\ UNCHANGED service
                            ELSE /\ service' = [service EXCEPT !.metadata = TRUE]
                                 /\ pc' = Gate(NextPhase(1))
                                 /\ ret' = ret
    /\ UNCHANGED <<config, stop, call, threads, first_run, delay_ms, responses, runs, robots, known, shared,
                   snapshot, results,
                   all_results, depth, tm, cut, skipped>>

\* the scan of a site that sends what Serve says
SpecScanRequest == SpecScanGet({})

\* the scan of a site whose specification paths may also send a document
\* that is not laid out as a specification
SpecScanRequestAnyDocument ==
    SpecScanGet({Reply(200, body, "application/json", "", "") :
                     body \in {ListPathsBody, TextInfoBody}})

\* detect_openapi returns (None, None)
SpecScanEnd ==
    /\ pc = At("scan", 1)
    /\ queue = <<>>
    /\ pc' = Gate(NextPhase(1))
    /\ UNCHANGED <<config, stop, call, threads, clientVars, storeVars, robots, known_paths, known, shared, queue,
                   snapshot, results, all_results, depth, tm, ret, histVars>>

\* ------------------------------- phases 2 and 3: wordlist and pattern
\* lines 141-148 / 154-160: the call of probe_wordlist / probe_patterns;
\* `known = known_paths or set()` is the caller's set unless that is empty
ListGate(phase, paths) ==
    /\ pc = Gate(phase)
    /\ GateHistory(phase)
    /\ IF PhaseEnabled(phase)
       THEN /\ pc' = At("loop", phase)
            /\ queue' = paths
            /\ results' = <<>>
            /\ known' = known_paths
            /\ shared' = (known_paths # {})
       ELSE /\ pc' = Gate(NextPhase(phase))
            /\ UNCHANGED <<queue, results, known, shared>>
    /\ UNCHANGED <<config, stop, call, threads, first_run, clientVars, storeVars, robots, known_paths, snapshot,
                   all_results, depth, tm, ret, lastReq, asked, supplied, failures, raised, active>>

\* `if path in known: continue` / `if robots denies: continue`
ListSkip(phase) ==
    /\ pc = At("loop", phase)
    /\ queue # <<>>
    /\ ~ LoopBudgetSpent
    /\ Head(queue) \in known \/ RobotsDenies(robots, Head(queue))
    /\ queue' = Tail(queue)
    /\ UNCHANGED <<config, stop, call, threads, clientVars, storeVars, pc, robots, known_paths, known,
                   shared, snapshot, results, all_results, depth, tm, ret, histVars>>

\* a test that takes a failed request for a find
FoundUnlessMissing(resp) == resp.status_code # 404

\* the tail of the loop body: a find is kept and becomes known
Found(resp) == resp.status_code > 0 /\ resp.status_code # 404

Keep(path, resp) ==
    IF Found(resp)
    THEN /\ results' = Append(results, <<path, resp>>)
         /\ known' = known \cup {path}
         /\ known_paths' = IF shared THEN known_paths \cup {path} ELSE known_paths
    ELSE UNCHANGED <<results, known, known_paths>>

\* a prober that takes every answer to HEAD as final
HeadFallbackNever(resp) == FALSE

\* `if resp.status_code == 405: resp = client.get(url)`
HeadFallback(resp) == resp.status_code = 405

\* client.head(url)
ListHead(phase) ==
    /\ pc = At("loop", phase)
    /\ queue # <<>>
    /\ ~ LoopBudgetSpent
    /\ Head(queue) \notin known
    /\ ~ RobotsDenies(robots, Head(queue))
    /\ \E reply \in Replies(Head(queue), "HEAD") :
         /\ Issued(phase, "HEAD", Head(queue), reply)
         /\ IF HeadFallback(Resp("HEAD", reply))
            THEN pc' = At("get", phase) /\ UNCHANGED <<queue, results, known, known_paths>>
            ELSE pc' = pc /\ queue' = Tail(queue) /\ Keep(Head(queue), Resp("HEAD", reply))
    /\ UNCHANGED <<config, stop, call, threads, first_run, delay_ms, storeVars, robots, shared, snapshot,
                   all_results, depth, tm, ret, supplied, cut, skipped>>

\* HEAD answered 405: client.get(url)
ListGet(phase) ==
    /\ pc = At("get", phase)
    /\ \E reply \in Replies(Head(queue), "GET") :
         /\ Issued(phase, "GET", Head(queue), reply)
         /\ Keep(Head(queue), Resp("GET", reply))
    /\ queue' = Tail(queue)
    /\ pc' = At("loop", phase)
    /\ UNCHANGED <<config, stop, call, threads, first_run, delay_ms, storeVars, robots, shared, snapshot,
                   all_results, depth, tm, ret, supplied, cut, skipped>>

\* the loop ends (list exhausted or budget spent); _process_results
ListReturn(phase, discovered_by) ==
    /\ pc = At("loop", phase)
    /\ queue = <<>> \/ LoopBudgetSpent
    /\ LET db == _process_results([endpoints |-> endpoints, responses |-> responses,
                                   supplied |-> supplied], results, discovered_by)
       IN  /\ endpoints' = db.endpoints
           /\ responses' = db.responses
           /\ supplied' = db.supplied
    /\ active' = IF results # <<>> THEN active \cup {phase} ELSE active
    /\ cut' = (cut \/ (queue # <<>> /\ LoopBudgetSpent))
    /\ queue' = <<>>
    /\ results' = <<>>
    /\ known' = {}
    /\ shared' = FALSE
    /\ pc' = Gate(NextPhase(phase))
    /\ UNCHANGED <<config, stop, call, threads, first_run, clientVars, service, parameters, runs, robots,
                   known_paths, snapshot, all_results, depth, tm, ret, lastReq, asked,
                   failures, raised, skipped>>

Phase2Gate == ListGate(2, load_all_wordlists(ConfiguredWordlists))
WordlistSkip == ListSkip(2)
WordlistHead == ListHead(2)
WordlistGet == ListGet(2)
WordlistReturn == ListReturn(2, "wordlist")

Phase3Gate == ListGate(3, generate_patterns(PatternVersions, PatternResources))
PatternSkip == ListSkip(3)
PatternHead == ListHead(3)
PatternGet == ListGet(3)
PatternReturn == ListReturn(3, "pattern")

\* ------------------------------------------- phase 4: method probing
\* lines 166-168
Phase4Gate ==
    /\ pc = Gate(4)
    /\ GateHistory(4)
    /\ IF PhaseEnabled(4)
       THEN pc' = At("meth", 4) /\ queue' = get_endpoints(endpoints)
       ELSE pc' = Gate(NextPhase(4)) /\ queue' = queue
    /\ UNCHANGED <<config, stop, call, threads, first_run, clientVars, storeVars, robots, known_paths, known, shared, snapshot,
                   results, all_results, depth, tm, ret, lastReq, asked, supplied, failures, raised,
                   active>>

\* lines 170-176: the per-endpoint check, then test_methods begins
MethodNext ==
    /\ pc = At("meth", 4)
    /\ queue # <<>>
    /\ ~ _check_limits
    /\ tm' = TestMethodsStart(Head(queue), config.skip_destructive)
    /\ pc' = At("tm", 4)
    /\ UNCHANGED <<config, stop, call, threads, clientVars, storeVars, robots, known_paths, known, shared, queue,
                   snapshot, results, all_results, depth, ret, histVars>>

\* test_methods: client.request(url, method=method) and the loop body
TestMethodRequest ==
    /\ pc = At("tm", 4)
    /\ tm.todo # <<>>
    /\ \E reply \in Replies(tm.path, Head(tm.todo)) :
         /\ Issued(4, Head(tm.todo), tm.path, reply)
         /\ tm' = TestMethodsStep(tm, Head(tm.todo), Resp(Head(tm.todo), reply))
    /\ UNCHANGED <<config, stop, call, threads, first_run, delay_ms, storeVars, pc, robots, known_paths, known, shared, queue,
                   snapshot, results, all_results, depth, ret, supplied, cut, skipped>>

\* test_methods returns; lines 177-185
TestMethodsReturn ==
    /\ pc = At("tm", 4)
    /\ tm.todo = <<>>
    /\ LET codes == {sc[2] : sc \in tm.status_codes}
       IN  /\ endpoints' = upsert_endpoint(endpoints, tm.path, tm.supported, codes,
                                           tm.auth_required, tm.auth_type_hint,
                                           tm.content_types, "")
           /\ supplied' = Supply(supplied, tm.path, tm.supported, codes, tm.content_types)
    /\ tm' = NoTest
    /\ queue' = Tail(queue)
    /\ pc' = At("meth", 4)
    /\ UNCHANGED <<config, stop, call, threads, first_run, clientVars, service, responses, parameters, runs, robots,
                   known_paths, known, shared, snapshot, results, all_results, depth, ret, lastReq, asked, cut,
                   failures, raised, skipped, active>>

\* the loop of lines 170-185 ends: list exhausted, or a check said halt
MethodEnd ==
    /\ pc = At("meth", 4)
    /\ queue = <<>> \/ _check_limits
    /\ cut' = (cut \/ queue # <<>>)
    /\ queue' = <<>>
    /\ pc' = Gate(NextPhase(4))
    /\ UNCHANGED <<config, stop, call, threads, first_run, clientVars, storeVars, robots, known_paths, known, shared, snapshot,
                   results, all_results, depth, tm, ret, lastReq, asked, supplied, failures, raised,
                   skipped, active>>

\* ----------------------------------------- phase 5: schema extraction
\* lines 190-192
Phase5Gate ==
    /\ pc = Gate(5)
    /\ GateHistory(5)
    /\ IF PhaseEnabled(5)
       THEN pc' = At("schema", 5) /\ queue' = get_endpoints(endpoints)
            /\ snapshot' = endpoints
       ELSE pc' = Gate(NextPhase(5)) /\ UNCHANGED <<queue, snapshot>>
    /\ UNCHANGED <<config, stop, call, threads, first_run, clientVars, storeVars, robots, known_paths, known, shared,
                   results, all_results, depth, tm, ret, lastReq, asked, supplied, failures, raised,
                   active>>

\* a phase 5 that fetches every endpoint
WantsSchemaAlways(row) == TRUE

\* lines 197-198: `"GET" in methods`, of the row as phase 5 read it
WantsSchema(row) == "GET" \in row.methods

\* lines 197-199: `if "GET" not in methods: continue`
SchemaSkip ==
    /\ pc = At("schema", 5)
    /\ queue # <<>>
    /\ ~ _check_limits
    /\ ~ WantsSchema(snapshot[Head(queue)])
    /\ queue' = Tail(queue)
    /\ UNCHANGED <<config, stop, call, threads, clientVars, storeVars, pc, robots, known_paths, known,
                   shared, snapshot, results, all_results, depth, tm, ret, histVars>>

ErrorParams(names) == [i \in DOMAIN names |->
    [name |-> names[i], type |-> "string", location |-> "query", required |-> TRUE]]

\* lines 200-220: GET the endpoint, store the response or the parameter hints
SchemaGet ==
    /\ pc = At("schema", 5)
    /\ queue # <<>>
    /\ ~ _check_limits
    /\ WantsSchema(snapshot[Head(queue)])
    /\ \E reply \in Replies(Head(queue), "GET") :
         LET resp == Resp("GET", reply)
         IN  /\ Issued(5, "GET", Head(queue), reply)
             /\ responses' =
                  IF ok(resp) /\ resp.body # "" /\ HasSchema(resp.body)
                  THEN add_response(responses, Head(queue), "GET", resp.status_code,
                                    resp.body, resp.content_type)
                  ELSE responses
             /\ parameters' =
                  IF ~ (ok(resp) /\ resp.body # "")
                     /\ resp.status_code \in {400, 422} /\ resp.body # ""
                  THEN IngestParams(parameters, Head(queue),
                                    ErrorParams(extract_params_from_error(resp.body)))
                  ELSE parameters
    /\ queue' = Tail(queue)
    /\ UNCHANGED <<config, stop, call, threads, first_run, delay_ms, service, endpoints, runs, pc, robots,
                   known_paths, known, shared, snapshot, results, all_results, depth, tm,
                   ret, supplied, cut, skipped>>

\* the loop of lines 194-220 ends: list exhausted, or a check said halt
SchemaEnd ==
    /\ pc = At("schema", 5)
    /\ queue = <<>> \/ _check_limits
    /\ cut' = (cut \/ queue # <<>>)
    /\ queue' = <<>>
    /\ snapshot' = EmptyMap
    /\ pc' = Gate(NextPhase(5))
    /\ UNCHANGED <<config, stop, call, threads, first_run, clientVars, storeVars, robots, known_paths, known, shared,
                   results, all_results, depth, tm, ret, lastReq, asked, supplied, failures, raised,
                   skipped, active>>

\* -------------------------------------------- phase 6: link following
\* lines 225-232: the call of discover_from_responses
Phase6Gate ==
    /\ pc = Gate(6)
    /\ GateHistory(6)
    /\ IF PhaseEnabled(6)
       THEN /\ pc' = At("collect", 6)
            /\ depth' = 0
            /\ all_results' = <<>>
            /\ known' = known_paths
            /\ shared' = (known_paths # {})
       ELSE /\ pc' = Gate(NextPhase(6))
            /\ UNCHANGED <<depth, all_results, known, shared>>
    /\ asked' = {}
    /\ UNCHANGED <<config, stop, call, threads, first_run, clientVars, storeVars, robots, known_paths, queue,
                   snapshot, results, tm, ret, lastReq, supplied, failures, raised, active>>

\* the links of every stored response body, normalised, minus the known
NewLinks ==
    LET bodies == {responses[i].body_sample : i \in DOMAIN responses}
        parsed == {JsonLoads(b) : b \in bodies \ {""}} \ {JsonFails}
        links == UNION {_walk_for_links(d, BaseUrl) : d \in parsed}
        paths == {_normalize_link(l, BaseUrl) : l \in links}
    IN  {p \in paths : p # "" /\ p \notin known}

\* a loop that goes on for as long as rounds find something
RoundsLeftAlways(done, max_depth) == TRUE

\* `for depth in range(max_depth)`: another round may begin
RoundsLeft(done, max_depth) == done < max_depth

\* a round begins: collect the candidates (response_driven.py lines 35-58)
LinkRoundStart ==
    /\ pc = At("collect", 6)
    /\ RoundsLeft(depth, config.max_depth)
    /\ IF NewLinks = {}
       THEN pc' = At("return", 6) /\ UNCHANGED <<queue, results>>
       ELSE pc' = At("links", 6) /\ queue' = Sorted(NewLinks) /\ results' = <<>>
    /\ UNCHANGED <<config, stop, call, threads, clientVars, storeVars, robots, known_paths, known, shared,
                   snapshot, all_results, depth, tm, ret, histVars>>

\* range(max_depth) is exhausted
LinkRoundsDone ==
    /\ pc = At("collect", 6)
    /\ ~ RoundsLeft(depth, config.max_depth)
    /\ pc' = At("return", 6)
    /\ UNCHANGED <<config, stop, call, threads, clientVars, storeVars, robots, known_paths, known, shared,
                   queue, snapshot, results, all_results, depth, tm, ret, histVars>>

LinkSkip ==
    /\ pc = At("links", 6)
    /\ queue # <<>>
    /\ RobotsDenies(robots, Head(queue))
    /\ queue' = Tail(queue)
    /\ UNCHANGED <<config, stop, call, threads, clientVars, storeVars, pc, robots, known_paths, known,
                   shared, snapshot, results, all_results, depth, tm, ret, histVars>>

\* client.get(url) of a candidate
LinkGet ==
    /\ pc = At("links", 6)
    /\ queue # <<>>
    /\ ~ RobotsDenies(robots, Head(queue))
    /\ \E reply \in Replies(Head(queue), "GET") :
         /\ Issued(6, "GET", Head(queue), reply)
         /\ Keep(Head(queue), Resp("GET", reply))
    /\ queue' = Tail(queue)
    /\ UNCHANGED <<config, stop, call, threads, first_run, delay_ms, storeVars, pc, robots, shared, snapshot,
                   all_results, depth, tm, ret, supplied, cut, skipped>>

\* the round ends (response_driven.py lines 75-78)
LinkRoundEnd ==
    /\ pc = At("links", 6)
    /\ queue = <<>>
    /\ all_results' = all_results \o results
    /\ results' = <<>>
    /\ IF results = <<>>
       THEN pc' = At("return", 6) /\ depth' = depth
       ELSE pc' = At("collect", 6) /\ depth' = depth + 1
    /\ UNCHANGED <<config, stop, call, threads, clientVars, storeVars, robots, known_paths, known, shared,
                   queue, snapshot, tm, ret, histVars>>

\* discover_from_responses returns; line 233
LinkReturn ==
    /\ pc = At("return", 6)
    /\ LET db == _process_results([endpoints |-> endpoints, responses |-> responses,
                                   supplied |-> supplied], all_results, "response_driven")
       IN  /\ endpoints' = db.endpoints
           /\ responses' = db.responses
           /\ supplied' = db.supplied
    /\ active' = IF all_results # <<>> THEN active \cup {6} ELSE active
    /\ all_results' = <<>>
    /\ depth' = 0
    /\ known' = {}
    /\ shared' = FALSE
    /\ asked' = {}
    /\ pc' = Gate(NextPhase(6))
    /\ UNCHANGED <<config, stop, call, threads, first_run, clientVars, service, parameters, runs, robots,
                   known_paths, queue, snapshot, results, tm, ret, lastReq, cut,
                   failures, raised, skipped>>

\* ------------------------------------------------------ lines 237-265
Finalize ==
    /\ pc = Gate(7)
    /\ service' = [service EXCEPT !.last_probed = TRUE]
    /\ runs' = [runs EXCEPT ![Len(runs)] =
                  update_probe_run(@, "completed", request_count,
                                   Cardinality(DOMAIN endpoints))]
    /\ ret' = [kind |-> "summary", status |-> "completed",
               total_requests |-> request_count,
               endpoints_found |-> Cardinality(DOMAIN endpoints)]
    /\ pc' = At("done", 7)
    /\ UNCHANGED <<config, stop, call, threads, clientVars, endpoints, responses, parameters, robots,
                   known_paths, known, shared, queue, snapshot, results, all_results,
                   depth, tm, histVars>>

Next ==
    \/ CreateStop
    \/ StartProbe
    \/ BaseProbe
    \/ Phase1Gate \/ SpecScanSkip \/ SpecScanRequest \/ SpecScanEnd
    \/ Phase2Gate \/ WordlistSkip \/ WordlistHead \/ WordlistGet \/ WordlistReturn
    \/ Phase3Gate \/ PatternSkip \/ PatternHead \/ PatternGet \/ PatternReturn
    \/ Phase4Gate \/ MethodNext \/ TestMethodRequest \/ TestMethodsReturn \/ MethodEnd
    \/ Phase5Gate \/ SchemaSkip \/ SchemaGet \/ SchemaEnd
    \/ Phase6Gate \/ LinkRoundStart \/ LinkRoundsDone \/ LinkSkip \/ LinkGet
    \/ LinkRoundEnd \/ LinkReturn
    \/ Finalize

Spec == Init /\ [][Next]_vars

\* ------------------------------------------- the store, driven directly
\* DEFAULT_CONFIG, as far as the model reads it
DefaultConfig ==
    [max_requests |-> DefaultMaxRequests, max_depth |-> DefaultMaxDepth,
     delay_ms |-> DefaultDelayMs, skip_destructive |-> TRUE,
     respect_robots_txt |-> TRUE, strategies |-> Strategies]

\* the arguments the callers of Database.upsert_endpoint choose from, for
\* the row of one (service, path)
UpsertPath == "/users"
UpsertMethods == {"GET", "POST"}
UpsertCodes == {200, 401}
UpsertTypes == {"application/json"}
UpsertHints == {"", "bearer", "basic"}
UpsertSources == {"openapi", "wordlist"}

UpsertsMade ==
    IF UpsertPath \in DOMAIN supplied THEN supplied[UpsertPath].calls ELSE 0

UpsertInit == config = DefaultConfig /\ Fresh

\* one call of Database.upsert_endpoint with arbitrary arguments (an empty
\* set stands for None as well: both are falsy)
UpsertCall ==
    /\ UpsertsMade < MaxUpserts
    /\ \E path \in {UpsertPath}, methods \in SUBSET UpsertMethods,
          status_codes \in SUBSET UpsertCodes, content_types \in SUBSET UpsertTypes,
          auth_required \in BOOLEAN, auth_type_hint \in UpsertHints,
          discovered_by \in UpsertSources :
         /\ endpoints' = upsert_endpoint(endpoints, path, methods, status_codes,
                                         auth_required, auth_type_hint, content_types,
                                         discovered_by)
         /\ supplied' = SupplyLatest(
                            Supply(supplied, path, methods, status_codes, content_types),
                            path, auth_required, auth_type_hint)
    /\ UNCHANGED <<config, stop, call, threads, first_run, clientVars, service, responses, parameters, runs,
                   localVars, lastReq, asked, cut, failures, raised, skipped, active>>

UpsertNext == UpsertCall

UpsertSpec == UpsertInit /\ [][UpsertNext]_vars

\* ------------------------------- one orchestrator, probe() called again
\* resume() (line 293) or the caller invokes probe() once more on the same
\* orchestrator: same client, same database, a new probe_runs row
ProbeAgain ==
    /\ pc = At("done", 7)
    /\ Len(runs) < MaxRuns
    /\ pc' = At("start", 0)
    /\ ret' = NoReturn
    /\ lastReq' = NoRequest
    /\ asked' = {}
    /\ cut' = FALSE
    /\ skipped' = {}
    /\ active' = {}
    /\ UNCHANGED <<config, stop, call, threads, first_run, clientVars, storeVars, robots, known_paths, known,
                   shared, queue, snapshot, results, all_results, depth, tm,
                   supplied, failures, raised>>

\* a configured delay_ms above the site's crawl delay
HighDelayMs == 3000

\* configurations whose budget the base probe of the first call spends
RerunConfigs ==
    [max_requests : 0..1,
     max_depth : {0},
     delay_ms : {DefaultDelayMs, HighDelayMs},
     skip_destructive : {TRUE},
     respect_robots_txt : BOOLEAN,
     strategies : SUBSET Strategies]

RerunInit == config \in RerunConfigs /\ Fresh

RerunNext ==
    \/ CreateStop
    \/ StartProbe
    \/ BaseProbe
    \/ Phase1Gate \/ Phase2Gate \/ Phase3Gate \/ Phase4Gate \/ Phase5Gate \/ Phase6Gate
    \/ Finalize
    \/ ProbeAgain

RerunSpec == RerunInit /\ [][RerunNext]_vars

\* -------------------------------------- _normalize_link, called directly
LinkChars == {"/", "a", "?", "#"}

RECURSIVE Words(_)
Words(n) == IF n = 0 THEN {""} ELSE {w \o c : w \in Words(n - 1), c \in LinkChars}

\* the links extract_links_from_json may hand over: relative ones, and
\* absolute ones under the base URL
Links ==
    LET rel == UNION {Words(n) : n \in 0..MaxLinkLen}
    IN  rel \cup {BaseUrl \o w : w \in rel}

NormalizeInit == config = DefaultConfig /\ Fresh

\* _normalize_link(link, base_url) on a link of a response
NormalizeLink ==
    /\ \E link \in Links :
         call' = [fn |-> "_normalize_link", arg |-> link, out |-> _normalize_link(link, BaseUrl)]
    /\ UNCHANGED <<config, stop, threads, clientVars, storeVars, localVars, histVars>>

\* _normalize_link applied to what it returned before
NormalizeAgain ==
    /\ call.fn = "_normalize_link"
    /\ call.out # ""
    /\ call' = [fn |-> "_normalize_link, again", arg |-> call.out,
                out |-> _normalize_link(call.out, BaseUrl)]
    /\ UNCHANGED <<config, stop, threads, clientVars, storeVars, localVars, histVars>>

NormalizeNext == NormalizeLink \/ NormalizeAgain

NormalizeSpec == NormalizeInit /\ [][NormalizeNext]_vars

\* ---------------------------------------- extract_schema, called directly
JsonScalars == {JNull, JBool, JInt, JFloat, JStr(""), JStr("abc")}
JsonKeys == <<"type", "id", "items">>

\* the sequences over a set, up to a length
RECURSIVE Lists(_, _)
Lists(S, n) ==
    IF n = 0 THEN {<<>>}
    ELSE Lists(S, n - 1) \cup {Append(l, v) : l \in Lists(S, n - 1), v \in S}

\* arrays and objects over a set of values; an object takes its keys from
\* JsonKeys in order
JsonOver(S, n) ==
    {JArr(l) : l \in Lists(S, n)}
      \cup {JObj([i \in 1..Len(l) |-> KV(JsonKeys[i], l[i])]) : l \in Lists(S, n)}

\* parsed JSON: scalars, flat containers, and containers of one container
JsonValues ==
    JsonScalars \cup JsonOver(JsonScalars, MaxJsonLen)
                \cup JsonOver(JsonOver(JsonScalars, MaxJsonLen), 1)

SchemaInit == config = DefaultConfig /\ Fresh

\* extract_schema(data) on a parsed body
ExtractSchema ==
    /\ \E data \in JsonValues :
         call' = [fn |-> "extract_schema", arg |-> data, out |-> extract_schema(data)]
    /\ UNCHANGED <<config, stop, threads, clientVars, storeVars, localVars, histVars>>

\* extract_schema applied to the schema it returned
ExtractAgain ==
    /\ call.fn = "extract_schema"
    /\ call' = [fn |-> "extract_schema, again", arg |-> call.out,
                out |-> extract_schema(call.out)]
    /\ UNCHANGED <<config, stop, threads, clientVars, storeVars, localVars, histVars>>

SchemaNext == ExtractSchema \/ ExtractAgain

SchemaSpec == SchemaInit /\ [][SchemaNext]_vars

\* ------------------------------------------------------------ resume()
\* _derive_service_name(BaseUrl): the last label but one of the host
ServiceName == "h"
ResumeNames == {ServiceName, "other"}

\* a resume that only looks for the service row
ResumableByService(service_name) == service_name = ServiceName /\ service.exists

\* lines 272-280: the service row is found and it has a last run
Resumable(service_name) ==
    /\ service_name = ServiceName /\ service.exists
    /\ runs # <<>>

\* probe() is interrupted between upsert_service and create_probe_run
\* (lines 57 and 58): the service row is committed, the run row never is
InterruptedStart ==
    /\ pc = At("start", 0)
    /\ runs = <<>>
    /\ ~ service.exists
    /\ service' = [service EXCEPT !.exists = TRUE]
    /\ UNCHANGED <<config, stop, call, threads, clientVars, endpoints, responses, parameters,
                   runs, localVars, histVars>>

\* resume(service_name), called while no probe() is under way
Resume ==
    /\ pc = At("done", 7) \/ (pc = At("start", 0) /\ runs = <<>>)
    /\ \E service_name \in ResumeNames :
         IF Resumable(service_name)
         THEN \* lines 286-288: self.config.update(run_config), every key of
              \* the snapshot overriding (an empty run_config updates nothing);
              \* line 293: probe(service["base_url"])
              /\ Len(runs) < MaxRuns
              /\ config' = IF runs # <<>> THEN runs[Len(runs)].config_json ELSE config
              /\ call' = [fn |-> "resume", arg |-> service_name, out |-> "probe"]
              /\ pc' = At("start", 0)
              /\ ret' = NoReturn
              /\ lastReq' = NoRequest
              /\ asked' = {}
              /\ cut' = FALSE
              /\ skipped' = {}
              /\ active' = {}
              /\ UNCHANGED <<stop, threads, first_run, clientVars, storeVars, robots,
                             known_paths, known, shared, queue, snapshot, results,
                             all_results, depth, tm, supplied, failures, raised>>
         ELSE \* lines 275, 280: return None
              /\ call' = [fn |-> "resume", arg |-> service_name, out |-> "None"]
              /\ UNCHANGED <<config, stop, threads, clientVars, storeVars, localVars, histVars>>

ResumeNext ==
    \/ CreateStop
    \/ StartProbe
    \/ InterruptedStart
    \/ BaseProbe
    \/ Phase1Gate \/ Phase2Gate \/ Phase3Gate \/ Phase4Gate \/ Phase5Gate \/ Phase6Gate
    \/ Finalize
    \/ Resume

ResumeSpec == RerunInit /\ [][ResumeNext]_vars

\* ------------------------------- resume() in a process of its own
\* an earlier process ran `probe URL --delay-ms N` and was killed after
\* create_probe_run (line 58); this process constructs its orchestrator
\* from a config with a delay_ms of its own (__init__ lines 25-29,
\* HttpClient.__init__ line 44) and no probe() is under way
ResumedInit ==
    /\ config \in RerunConfigs
    /\ stop = FALSE
    /\ call = NoCall
    /\ threads = <<>>
    /\ request_count = 0 /\ delay_ms = config.delay_ms /\ now = 1 /\ _last_request_time = 0
    /\ service = [exists |-> TRUE, server_header |-> "", robots_txt |-> FALSE,
                  metadata |-> FALSE, last_probed |-> FALSE]
    /\ endpoints = EmptyMap
    /\ responses = <<>> /\ parameters = EmptyMap
    /\ \E d \in {DefaultDelayMs, HighDelayMs} :
          runs = <<NewRun([config EXCEPT !.delay_ms = d])>>
    /\ pc = At("done", 7) /\ robots = NoRobots /\ known_paths = {} /\ known = {}
    /\ shared = FALSE /\ queue = <<>> /\ snapshot = EmptyMap /\ results = <<>>
    /\ all_results = <<>> /\ depth = 0 /\ tm = NoTest /\ ret = NoReturn
    /\ lastReq = NoRequest
    /\ asked = {}
    /\ supplied = EmptyMap
    /\ cut = FALSE /\ failures = 0 /\ raised = FALSE /\ first_run = EmptyMap
    /\ skipped = {} /\ active = {}

ResumedNext ==
    \/ CreateStop
    \/ StartProbe
    \/ BaseProbe
    \/ Phase1Gate \/ Phase2Gate \/ Phase3Gate \/ Phase4Gate \/ Phase5Gate \/ Phase6Gate
    \/ Finalize
    \/ Resume

ResumedSpec == ResumedInit /\ [][ResumedNext]_vars

\* ------------------------------------- _process_results, driven directly
\* the observations a strategy hands over: status, WWW-Authenticate, body
ObservedCodes == {200, 401, 403, 404}
ObservedChallenges == {"", "Bearer realm=x", "BASIC realm=x", "api_key", "Digest realm=x"}
ObservedBodies == {"", UsersBody}
ObservedMethods == {"GET", "HEAD"}

ResultsInit == config = DefaultConfig /\ Fresh

\* _process_results(service_id, [(path, resp)], discovered_by)
ResultsCall ==
    /\ UpsertsMade < MaxResults
    /\ \E method \in ObservedMethods, status_code \in ObservedCodes,
          www \in ObservedChallenges, body \in ObservedBodies :
         LET resp == Resp(method, Reply(status_code, body, "application/json", www, ""))
             db == _process_results([endpoints |-> endpoints, responses |-> responses,
                                     supplied |-> supplied],
                                    <<<<UpsertPath, resp>>>>, "wordlist")
         IN  /\ endpoints' = db.endpoints
             /\ responses' = db.responses
             /\ supplied' = db.supplied
             /\ call' = [fn |-> "_process_results", arg |-> resp, out |-> ""]
    /\ UNCHANGED <<config, stop, threads, clientVars, service, parameters, runs, localVars,
                   lastReq, asked, cut, failures, raised, first_run, skipped, active>>

ResultsNext == ResultsCall

ResultsSpec == ResultsInit /\ [][ResultsNext]_vars

\* -------------------------------- upsert_endpoint from several threads
\* every call opens its own connection (_connect), reads the row with a
\* SELECT and writes it back with an UPDATE or INSERT that it commits at
\* once; SQLite runs each statement atomically, nothing spans the two
WriterArgs ==
    [methods : {{"GET"}, {"POST"}}, status_codes : {{200}, {401}},
     content_types : {{}}, auth_required : BOOLEAN, auth_type_hint : {""}]

\* a thread about to call upsert_endpoint(service, UpsertPath, ...);
\* `existing` will hold the rows its SELECT fetched
Writer(args) == [pc |-> "select", args |-> args, existing |-> <<>>]

\* the row other code stored earlier
PriorRow ==
    [methods |-> {"HEAD"}, status_codes |-> {}, auth_required |-> FALSE,
     auth_type_hint |-> "", content_types |-> {}, discovered_by |-> "openapi"]

WritersInit ==
    /\ config = DefaultConfig
    /\ stop = FALSE
    /\ call = NoCall
    /\ threads \in [1..NumWriters -> {Writer(args) : args \in WriterArgs}]
    /\ request_count = 0 /\ delay_ms = config.delay_ms /\ now = 1 /\ _last_request_time = 0
    /\ service = [exists |-> TRUE, server_header |-> "", robots_txt |-> FALSE,
                  metadata |-> FALSE, last_probed |-> FALSE]
    /\ endpoints \in {EmptyMap, UpsertPath :> PriorRow}
    /\ responses = <<>> /\ parameters = EmptyMap /\ runs = <<>>
    /\ pc = At("start", 0) /\ robots = NoRobots /\ known_paths = {} /\ known = {}
    /\ shared = FALSE /\ queue = <<>> /\ snapshot = EmptyMap /\ results = <<>>
    /\ all_results = <<>> /\ depth = 0 /\ tm = NoTest /\ ret = NoReturn
    /\ lastReq = NoRequest
    /\ asked = {}
    /\ supplied = IF endpoints = EmptyMap THEN EmptyMap
                  ELSE Supply(EmptyMap, UpsertPath, PriorRow.methods, {}, {})
    /\ cut = FALSE /\ failures = 0 /\ raised = FALSE /\ first_run = EmptyMap
    /\ skipped = {} /\ active = {}

\* lines 168-172: the SELECT of the existing row
WriterSelect(t) ==
    /\ threads[t].pc = "select"
    /\ threads' = [threads EXCEPT ![t] =
           [@ EXCEPT !.pc = "write",
                     !.existing = IF UpsertPath \in DOMAIN endpoints
                                  THEN <<endpoints[UpsertPath]>> ELSE <<>>]]
    /\ supplied' = Supply(supplied, UpsertPath, threads[t].args.methods,
                          threads[t].args.status_codes, threads[t].args.content_types)
    /\ UNCHANGED <<config, stop, call, clientVars, storeVars, localVars, lastReq, asked, cut,
                   failures, raised, first_run, skipped, active>>

\* lines 174-217: the UPDATE of the row that was read, or the INSERT, which
\* UNIQUE(service_id, path) rejects when the row exists by now
WriterWrite(t) ==
    /\ threads[t].pc = "write"
    /\ LET a == threads[t].args
           existing == threads[t].existing
           old == existing[1]
       IN  IF existing # <<>>
           THEN /\ endpoints' = [endpoints EXCEPT ![UpsertPath] =
                       [@ EXCEPT !.methods = MergeSet(old.methods, a.methods),
                                 !.status_codes = MergeSet(old.status_codes, a.status_codes),
                                 !.content_types = MergeSet(old.content_types, a.content_types),
                                 !.auth_required = AuthLatch(@, a.auth_required),
                                 !.auth_type_hint = HintMerge(@, a.auth_type_hint)]]
                /\ threads' = [threads EXCEPT ![t].pc = "returned"]
           ELSE IF UpsertPath \in DOMAIN endpoints
                THEN /\ threads' = [threads EXCEPT ![t].pc = "IntegrityError"]
                     /\ UNCHANGED endpoints
                ELSE /\ endpoints' = upsert_endpoint(endpoints, UpsertPath, a.methods,
                                         a.status_codes, a.auth_required, a.auth_type_hint,
                                         a.content_types, "wordlist")
                     /\ threads' = [threads EXCEPT ![t].pc = "returned"]
    /\ UNCHANGED <<config, stop, call, clientVars, service, responses, parameters, runs,
                   localVars, histVars>>

WritersNext == \E t \in 1..NumWriters : WriterSelect(t) \/ WriterWrite(t)

WritersSpec == WritersInit /\ [][WritersNext]_vars

\* ------------------------------------------ test_methods on any server
\* what a server may answer to one method of the tester
TesterReplies(method) ==
    IF method \in {"GET", "HEAD"}
    THEN {TransportFailure}
           \cup {Reply(status, "", "", "", "") : status \in {200, 404, 501}}
           \cup {Reply(status, "", "", www, "") :
                   status \in {401, 403}, www \in {"", "Bearer realm=x", "Basic realm=x"}}
    ELSE IF method = "OPTIONS"
    THEN {TransportFailure, Reply(401, "", "", "Basic realm=x", "")}
           \cup {Reply(status, "", "", "", allow) :
                   status \in {200, 404, 405}, allow \in {"", "GET, post"}}
    ELSE {Reply(200, "", "", "", ""), Reply(405, "", "", "", ""),
          Reply(401, "", "", "Bearer realm=x", "")}

\* the rows phase 4 may find for the endpoint
TesterRows ==
    {PriorRow, [PriorRow EXCEPT !.auth_required = TRUE, !.auth_type_hint = "basic"]}

\* phase 4 is about to test the one stored endpoint
TesterInit ==
    /\ config \in {[DefaultConfig EXCEPT !.skip_destructive = b] : b \in BOOLEAN}
    /\ stop = FALSE
    /\ call = [fn |-> "test_methods", arg |-> <<>>, out |-> ""]
    /\ threads = <<>>
    /\ request_count = 0 /\ delay_ms = config.delay_ms /\ now = 1 /\ _last_request_time = 0
    /\ service = [exists |-> TRUE, server_header |-> "", robots_txt |-> FALSE,
                  metadata |-> FALSE, last_probed |-> FALSE]
    /\ endpoints \in {UpsertPath :> row : row \in TesterRows}
    /\ responses = <<>> /\ parameters = EmptyMap /\ runs = <<NewRun(config)>>
    /\ pc = At("meth", 4) /\ robots = NoRobots /\ known_paths = {UpsertPath} /\ known = {}
    /\ shared = FALSE /\ queue = <<UpsertPath>> /\ snapshot = EmptyMap /\ results = <<>>
    /\ all_results = <<>> /\ depth = 0 /\ tm = NoTest /\ ret = NoReturn
    /\ lastReq = NoRequest
    /\ asked = {}
    /\ supplied = Supply(EmptyMap, UpsertPath, PriorRow.methods, {}, {})
    /\ cut = FALSE /\ failures = 0 /\ raised = FALSE /\ first_run = EmptyMap
    /\ skipped = {} /\ active = {}

\* test_methods: client.request(url, method=method) and the loop body; the
\* responses so far are kept in call.arg
TesterRequest ==
    /\ pc = At("tm", 4)
    /\ tm.todo # <<>>
    /\ \E reply \in TesterReplies(Head(tm.todo)) :
         /\ Issued(4, Head(tm.todo), tm.path, reply)
         /\ tm' = TestMethodsStep(tm, Head(tm.todo), Resp(Head(tm.todo), reply))
         /\ call' = [call EXCEPT !.arg = Append(@, Resp(Head(tm.todo), reply))]
    /\ UNCHANGED <<config, stop, threads, first_run, delay_ms, storeVars, pc, robots, known_paths,
                   known, shared, queue, snapshot, results, all_results, depth, ret, supplied,
                   cut, skipped>>

TesterNext == MethodNext \/ TesterRequest \/ TestMethodsReturn \/ MethodEnd

TesterSpec == TesterInit /\ [][TesterNext]_vars

\* ----------------------------------------- a probe run and its replay
\* probe() is called a second time with the same URL on the same store
Replay ==
    /\ pc = At("done", 7)
    /\ Len(runs) = 1
    /\ first_run' = endpoints
    /\ pc' = At("start", 0)
    /\ ret' = NoReturn
    /\ lastReq' = NoRequest
    /\ asked' = {}
    /\ cut' = FALSE
    /\ skipped' = {}
    /\ active' = {}
    /\ UNCHANGED <<config, stop, call, threads, clientVars, storeVars, robots, known_paths, known,
                   shared, queue, snapshot, results, all_results, depth, tm,
                   supplied, failures, raised>>

\* the default budget, depth and method list, every strategy list
ReplayConfigs ==
    [max_requests : {DefaultMaxRequests},
     max_depth : {0, DefaultMaxDepth},
     delay_ms : {DefaultDelayMs},
     skip_destructive : {TRUE},
     respect_robots_txt : BOOLEAN,
     strategies : SUBSET Strategies]

ReplayInit == config \in ReplayConfigs /\ Fresh

ReplayNext == Next \/ Replay

ReplaySpec == ReplayInit /\ [][ReplayNext]_vars

\* ------------------------------------------ the HttpClient, driven directly
ClientInit ==
    /\ config \in {[DefaultConfig EXCEPT !.delay_ms = d] : d \in 0..MaxDelay}
    /\ Fresh

\* other code runs: the monotonic clock advances
Tick ==
    /\ now < MaxClock
    /\ now' = now + 1
    /\ UNCHANGED <<config, stop, call, threads, request_count, delay_ms, _last_request_time,
                   storeVars, localVars, histVars>>

\* the owner assigns client.delay_ms (orchestrator.py line 73)
SetDelay ==
    /\ \E d \in 0..MaxDelay : d # delay_ms /\ delay_ms' = d
    /\ UNCHANGED <<config, stop, call, threads, request_count, now, _last_request_time,
                   storeVars, localVars, histVars>>

\* the hosts callers hand to the client: with a scheme, and without one
ClientHosts == {BaseUrl, "h.io"}
ClientPaths == {"/users", "/nowhere"}

\* client.request(url, method=method) for any URL, method and outcome
ClientRequest ==
    /\ request_count < MaxClientRequests
    /\ now <= MaxClock
    /\ \E host \in ClientHosts, path \in ClientPaths, method \in Range(ALL_METHODS) :
         /\ IF RequestRaises(host \o path)
            THEN /\ _rate_limit
                 /\ raised' = TRUE
                 /\ lastReq' = [phase |-> -1, method |-> method, path |-> host \o path,
                                status_code |-> -1]
                 /\ UNCHANGED <<request_count, failures>>
            ELSE \E reply \in Replies(path, method) :
                   /\ HttpRequest(reply)
                   /\ lastReq' = [phase |-> -1, method |-> method, path |-> host \o path,
                                  status_code |-> reply.status_code]
    /\ UNCHANGED <<config, stop, call, threads, first_run, delay_ms, storeVars, localVars, supplied, cut,
                   skipped, active, asked>>

ClientNext == Tick \/ SetDelay \/ ClientRequest

ClientSpec == ClientInit /\ [][ClientNext]_vars

\* --------------------------------- the parameters table, driven directly
\* the arguments the callers of Database.upsert_parameter choose from; the
\* location of a spec document's parameter is its "in" value, None for null
ParamEndpoint == "/users"
ParamNames == {"limit"}
ParamTypes == {"string", "integer"}
ParamLocations == {"query", "path", None}

ParamInit == config = DefaultConfig /\ Fresh

\* one call of Database.upsert_parameter
ParamCall ==
    /\ \E name \in ParamNames, param_type \in ParamTypes,
          location \in ParamLocations, required \in BOOLEAN :
         LET after == upsert_parameter(parameters, ParamEndpoint, name, param_type,
                                       location, required)
         IN  /\ Len(after) <= MaxParamRows
             /\ parameters' = after
    /\ UNCHANGED <<config, stop, call, threads, clientVars, service, endpoints, responses, runs,
                   localVars, histVars>>

ParamNext == ParamCall

ParamSpec == ParamInit /\ [][ParamNext]_vars

\* ---------------------------------- the responses table, driven directly
\* `s` written n times
RECURSIVE Repeat(_, _)
Repeat(s, n) ==
    IF n = 0 THEN ""
    ELSE LET half == Repeat(s, n \div 2)
         IN  half \o half \o (IF n % 2 = 1 THEN s ELSE "")

\* a response body of n characters; its last character is the closing brace
ResponseBody(n) == IF n = 0 THEN "" ELSE Repeat("a", n - 1) \o "}"

\* the body lengths the callers of add_response hand over: around and far
\* beyond the limit
BodyLengths == {0, 1, SampleLimit - 1, SampleLimit, SampleLimit + 1, 2 * SampleLimit}
ResponseEndpoint == "/users"
ResponseMethods == {"GET", "POST"}
ResponseCodes == {200, 404}

ResponseInit == config = DefaultConfig /\ Fresh

\* one call of Database.add_response
ResponseCall ==
    /\ Len(responses) < MaxResponses
    /\ \E method \in ResponseMethods, status_code \in ResponseCodes, n \in BodyLengths :
         responses' = add_response(responses, ResponseEndpoint, method, status_code,
                                   ResponseBody(n), "application/json")
    /\ UNCHANGED <<config, stop, call, threads, clientVars, service, endpoints, parameters, runs,
                   localVars, histVars>>

ResponseNext == ResponseCall

ResponseSpec == ResponseInit /\ [][ResponseNext]_vars

\* ------------------------------- spec documents, ingested directly
\* what a server may publish under a well-known path: a `paths` mapping with
\* one key, with or without a Swagger 2 basePath
DocPathKeys == {"/users", "users", "/search?q=1", "/docs#top"}
DocBasePaths == {None, "/api"}
DocOperations == {<<"get">>, <<"get", "post">>}

SpecDocument(base_path, key, operations) ==
    JObj(<<KV("openapi", JInt)>>
         \o (IF base_path # None THEN <<KV("basePath", JStr(base_path))>> ELSE <<>>)
         \o <<KV("paths", JObj(<<KV(key,
                 JObj([i \in DOMAIN operations |-> KV(operations[i], JObj(<<>>))]))>>))>>)

DocInit == config = DefaultConfig /\ Fresh

\* lines 110-128 of probe() on a document detect_openapi returned
DocIngest ==
    /\ Cardinality(DOMAIN endpoints) < MaxDocEndpoints
    /\ \E base_path \in DocBasePaths, key \in DocPathKeys, operations \in DocOperations :
         LET db == IngestSpec([endpoints |-> endpoints, parameters |-> parameters,
                               supplied |-> supplied, known |-> known_paths],
                              extract_endpoints_from_spec(
                                  SpecDocument(base_path, key, operations)))
         IN  /\ \A path \in DOMAIN db.supplied : db.supplied[path].calls <= MaxDocCalls
             /\ endpoints' = db.endpoints
             /\ parameters' = db.parameters
             /\ supplied' = db.supplied
             /\ known_paths' = db.known
    /\ UNCHANGED <<config, stop, call, threads, first_run, clientVars, service, responses, runs, pc, robots, known,
                   shared, queue, snapshot, results, all_results, depth, tm, ret,
                   lastReq, asked, cut, failures, raised, skipped, active>>

DocNext == DocIngest

DocSpec == DocInit /\ [][DocNext]_vars

\* ----------------------------- probe() of a site that sends any document
AnyDocumentNext == Next \/ SpecScanRequestAnyDocument

AnyDocumentSpec == Init /\ [][AnyDocumentNext]_vars

\* =============================================================== claims
\* probe() has returned
Done == pc = At("done", 7)

\* C1: for every endpoint row, the stored method set, status-code set and
\* content-type set each equal the union of all values every
\* upsert_endpoint call on that path has supplied so far (so no later
\* upsert removes an element).
C1_SetsAreUnionOfInputs ==
    /\ DOMAIN endpoints = DOMAIN supplied
    /\ \A p \in DOMAIN endpoints :
         /\ endpoints[p].methods = supplied[p].methods
         /\ endpoints[p].status_codes = supplied[p].status_codes
         /\ endpoints[p].content_types = supplied[p].content_types

\* a row that three calls have written and that holds both methods, both
\* status codes and the content type
C1_Witness ==
    \E p \in DOMAIN endpoints :
        /\ supplied[p].calls = 3
        /\ endpoints[p].methods = UpsertMethods
        /\ endpoints[p].status_codes = UpsertCodes
        /\ endpoints[p].content_types = UpsertTypes

\* C2: request_count never exceeds max_requests + 1.
C2_BudgetPlusOne == request_count <= config.max_requests + 1

\* C3: a run that was cut short by a budget / STOP check is finalized with
\* status stopped, and the summary reports that status.
C3_CutRunIsStopped ==
    (Done /\ cut) =>
        /\ runs[Len(runs)].status = "stopped"
        /\ ret.kind = "summary" /\ ret.status = "stopped"

\* C4: once the STOP sentinel exists while a discovery phase is under way,
\* no new request is issued, in that phase or in any later one.
C4_NoRequestAfterStop ==
    [][(stop /\ pc[2] >= 1) => request_count' = request_count]_vars

\* C5: with robots respected and robots.txt loaded, no request of phases
\* 1..6 goes to a path the policy denies.
C5_RobotsRespected ==
    (robots.present /\ robots.loaded /\ lastReq.phase \in 1..6)
        => is_allowed(robots.checker, lastReq.path)

\* C6: with skip_destructive, every request of the run uses GET, HEAD or
\* OPTIONS.
C6_SafeMethodsOnly ==
    (config.skip_destructive /\ lastReq.phase >= 0)
        => lastReq.method \in {"GET", "HEAD", "OPTIONS"}

\* the method prober, restricted to the safe set, has just sent OPTIONS
C6_Witness ==
    /\ config.skip_destructive
    /\ lastReq.phase = 4 /\ lastReq.method = "OPTIONS"
    /\ pc = At("tm", 4) /\ tm.todo = <<>>

\* C7: requests are issued in phase order: the phase of each request is at
\* least the phase of the request before it.
C7_PhaseOrder == [][lastReq'.phase >= lastReq.phase]_vars

\* a run in which every phase issued requests, the link follower last
C7_Witness == Done /\ active = 0..6 /\ lastReq.phase = 6

\* C8: a phase whose strategy is absent from `strategies`, or that finds
\* the budget spent when it would start, issues no request and records
\* nothing.
C8_SkippedPhaseInert == skipped \cap active = {}

\* a finished run with a phase skipped for its strategy, phase 4 skipped
\* for the budget, and another phase that did run
C8_Witness ==
    /\ Done
    /\ \E p \in skipped : StrategyOf(p) # "" /\ StrategyOf(p) \notin config.strategies
    /\ \E p \in skipped : StrategyOf(p) = "" \/ StrategyOf(p) \in config.strategies
    /\ active \ {0} # {}

\* C9: a transport failure of the base GET ends the run as error with the
\* finish stamp set and probe returning {error}; afterwards no request is
\* issued and no endpoint row is created or changed.
C9_BaseFailureEndsRun ==
    [][/\ (pc = At("base", 0) /\ failures' > failures) =>
            /\ runs'[Len(runs')].status = "error"
            /\ runs'[Len(runs')].finished
            /\ ret' = [kind |-> "error"]
            /\ endpoints' = endpoints
       /\ ret.kind = "error" =>
            /\ request_count' = request_count
            /\ endpoints' = endpoints
            /\ runs' = runs
            /\ ret' = ret]_vars

\* the run ended by a failed base probe
C9_Witness ==
    /\ Done /\ ret.kind = "error" /\ request_count = 1 /\ failures = 1
    /\ runs[Len(runs)].status = "error"

\* C10: a ProbeRun's finish stamp is set iff its status is completed,
\* stopped or error.
C10_FinishedIffTerminal ==
    \A i \in DOMAIN runs :
        runs[i].finished <=> runs[i].status \in {"completed", "stopped", "error"}

\* a run finalized as completed
C10_Witness == runs # <<>> /\ runs[Len(runs)].status = "completed" /\ runs[Len(runs)].finished

\* C11: once a ProbeRun's status is completed, stopped or error, no later
\* step of the program changes it.
C11_TerminalStatusWriteOnce ==
    [][\A i \in DOMAIN runs :
          runs[i].status \in {"completed", "stopped", "error"}
              => runs'[i].status = runs[i].status]_vars

\* a run that ended as error, still error after a later probe() call on
\* the same store has completed
C11_Witness ==
    /\ Done /\ Len(runs) >= 2
    /\ runs[1].status = "error"
    /\ runs[Len(runs)].status = "completed"

\* C12: the first call of request() goes out without waiting, and every
\* later request is issued at least delay_ms (the worker's value at that
\* moment) after the start of the call before it.
C12_RateLimit ==
    [][request_count' # request_count =>
          /\ _last_request_time = 0 => now' = now
          /\ _last_request_time > 0 => _last_request_time' - _last_request_time >= delay_ms]_vars

\* the last of several requests was held back until exactly delay_ms after
\* the one before it, although the clock had advanced in between
C12_Witness ==
    /\ request_count = MaxClientRequests
    /\ delay_ms = MaxDelay
    /\ now = _last_request_time
    /\ now = MaxClock + 1

\* C13: while the robots.txt of the run is loaded and declares a crawl
\* delay, the worker's delay_ms is max(configured delay_ms, crawl_delay *
\* 1000), from before the base probe on; and once probe() has set it, no
\* step of the run lowers it.
C13_CrawlDelayRaisesDelay ==
    /\ [](robots.loaded /\ robots.checker.crawl_delay > 0 =>
            /\ delay_ms >= config.delay_ms
            /\ delay_ms >= robots.checker.crawl_delay * 1000
            /\ delay_ms \in {config.delay_ms, robots.checker.crawl_delay * 1000})
    /\ [][pc # At("start", 0) => delay_ms' >= delay_ms]_vars

\* about to send the base GET, nothing requested yet, with the delay
\* raised from the configured 500 ms to the crawl delay
C13_Witness ==
    /\ pc = At("base", 0) /\ request_count = 0
    /\ robots.loaded /\ robots.checker.crawl_delay = 2
    /\ config.delay_ms = DefaultDelayMs /\ delay_ms = 2000

\* C14: an endpoint row whose auth_required flag is set keeps it set (and
\* stays in the table) through every later upsert_endpoint call.
C14_AuthRequiredLatches ==
    [][\A p \in DOMAIN endpoints :
          endpoints[p].auth_required =>
              p \in DOMAIN endpoints' /\ endpoints'[p].auth_required]_vars

\* a row still flagged although the latest of its upserts passed false
C14_Witness ==
    \E p \in DOMAIN endpoints :
        /\ supplied[p].calls >= 2
        /\ ~ supplied[p].last_auth
        /\ endpoints[p].auth_required

\* C15: an upsert_endpoint call with an empty auth_type_hint leaves the
\* stored hint as it was; a call with a non-empty hint stores that hint.
C15_HintOverwrittenIfNonEmpty ==
    [][supplied' # supplied =>
          \A p \in DOMAIN supplied' :
              (p \notin DOMAIN supplied \/ supplied'[p].calls # supplied[p].calls) =>
                  IF supplied'[p].last_hint # ""
                  THEN endpoints'[p].auth_type_hint = supplied'[p].last_hint
                  ELSE endpoints'[p].auth_type_hint =
                           (IF p \in DOMAIN endpoints
                            THEN endpoints[p].auth_type_hint ELSE "")]_vars

\* a row that three calls have written, the last of them with an empty
\* hint, and that still holds the hint an earlier call gave
C15_Witness ==
    \E p \in DOMAIN endpoints :
        /\ supplied[p].calls = 3
        /\ supplied[p].last_hint = ""
        /\ endpoints[p].auth_type_hint = "basic"

\* C16: no two rows of the parameters table have the same (endpoint, name,
\* location), and a row's required flag, once set, stays set through every
\* later upsert_parameter call.
C16_OneRowPerKeyRequiredLatches ==
    /\ [](\A i, j \in DOMAIN parameters :
             (/\ parameters[i].endpoint = parameters[j].endpoint
              /\ parameters[i].name = parameters[j].name
              /\ parameters[i].location = parameters[j].location) => i = j)
    /\ [][\A i \in DOMAIN parameters :
             parameters[i].required =>
                 i \in DOMAIN parameters' /\ parameters'[i].required]_vars

\* C17: the wordlist, pattern and link-following phases never request a
\* path that is already a row of the endpoint table.
C17_KnownPathNotRequested ==
    [][(request_count' # request_count /\ lastReq'.phase \in {2, 3, 6})
          => lastReq'.path \notin DOMAIN endpoints]_vars

\* C18: a request that ends in a transport failure records nothing: the
\* step leaves the endpoint table and the lists of finds as they were, no
\* kept find carries status 0, and 0 is in no endpoint's status-code set.
C18_TransportFailureNotRecorded ==
    /\ [](/\ \A p \in DOMAIN endpoints : 0 \notin endpoints[p].status_codes
          /\ \A i \in DOMAIN results : results[i][2].status_code # 0
          /\ \A i \in DOMAIN all_results : all_results[i][2].status_code # 0
          /\ \A sc \in tm.status_codes : sc[2] # 0)
    /\ [][failures' > failures =>
             /\ endpoints' = endpoints
             /\ results' = results
             /\ all_results' = all_results
             /\ tm'.status_codes = tm.status_codes]_vars

\* a finished wordlist-only run in which the GET of /users failed: /admin
\* is recorded, /users is not
C18_Witness ==
    /\ Done /\ failures = 1
    /\ config.strategies = {"wordlist"}
    /\ config.max_requests = DefaultMaxRequests
    /\ "/admin" \in DOMAIN endpoints
    /\ "/users" \notin DOMAIN endpoints

\* C19: every call of request() returns a response record and moves
\* request_count up by exactly one; request_count never goes down.
C19_EveryCallCountsOnce ==
    [][/\ request_count' >= request_count
       /\ lastReq' # lastReq =>
            /\ ~ raised'
            /\ request_count' = request_count + 1]_vars

\* C20: the body sample of every row of the responses table is at most
\* 2048 characters long, whatever body add_response was handed.
C20_SampleAtMostLimit ==
    \A i \in DOMAIN responses : Len(responses[i].body_sample) <= SampleLimit

\* a stored sample of exactly 2048 characters that does not end with the
\* closing brace: it was cut out of a longer body
C20_Witness ==
    \E i \in DOMAIN responses :
        /\ Len(responses[i].body_sample) = SampleLimit
        /\ SubSeq(responses[i].body_sample, SampleLimit, SampleLimit) = "a"

\* an endpoint path as the store is meant to hold it
WellFormedPath(path) ==
    StartsWith(path, "/") /\ ~ Contains(path, "?") /\ ~ Contains(path, "#")

\* C21: every stored endpoint path begins with "/" and holds neither a
\* query string nor a fragment.
C21_StoredPathsWellFormed ==
    \A path \in DOMAIN endpoints : WellFormedPath(path)

\* what C22 compares of an endpoint row
Record22(row) ==
    [methods |-> row.methods, status_codes |-> row.status_codes,
     content_types |-> row.content_types, auth_required |-> row.auth_required,
     auth_type_hint |-> row.auth_type_hint]

\* the second probe() has returned
Replayed == Done /\ Len(runs) = 2

\* C22 as stated: after the second run the service has the endpoints it
\* had after the first, each with the same method, status-code and
\* content-type sets, auth_required flag and auth_type_hint (every request
\* of both runs was answered by the server, nobody created STOP and
\* robots.txt, whose fetch may fail, is not consulted).
C22_ReplayIdempotent ==
    Replayed /\ failures = 0 /\ ~ stop /\ ~ config.respect_robots_txt =>
        /\ DOMAIN endpoints = DOMAIN first_run
        /\ \A path \in DOMAIN endpoints :
              Record22(endpoints[path]) = Record22(first_run[path])

\* C22 as amended: a replay only adds. From the start of the second run on,
\* every endpoint of the first run is still stored, its method, status-code
\* and content-type sets contain what they held after the first run, and
\* auth_required, once true, is still true.
C22_ReplayOnlyAdds ==
    Len(runs) = 2 =>
        \A path \in DOMAIN first_run :
            /\ path \in DOMAIN endpoints
            /\ first_run[path].methods \subseteq endpoints[path].methods
            /\ first_run[path].status_codes \subseteq endpoints[path].status_codes
            /\ first_run[path].content_types \subseteq endpoints[path].content_types
            /\ first_run[path].auth_required => endpoints[path].auth_required

\* a replay has returned and left an endpoint of the first run with a
\* strictly larger method set
C22_Witness ==
    /\ Replayed
    /\ \E path \in DOMAIN first_run :
          /\ first_run[path].methods \subseteq endpoints[path].methods
          /\ first_run[path].methods # endpoints[path].methods

\* C23: when the concurrent upsert_endpoint calls on one (service, path)
\* are over, each has returned without error and the row's sets hold the
\* earlier row's values and every call's values.
C23_ConcurrentUpsertsSerialize ==
    (\A t \in DOMAIN threads : threads[t].pc \notin {"select", "write"}) =>
        /\ \A t \in DOMAIN threads : threads[t].pc = "returned"
        /\ \A path \in DOMAIN supplied :
              /\ path \in DOMAIN endpoints
              /\ endpoints[path].methods = supplied[path].methods
              /\ endpoints[path].status_codes = supplied[path].status_codes
              /\ endpoints[path].content_types = supplied[path].content_types

\* the hint the spec derives from a WWW-Authenticate header
SpecHint(www) ==
    IF Contains(Lower(www), "bearer") THEN "bearer"
    ELSE IF Contains(Lower(www), "basic") THEN "basic"
    ELSE IF Contains(Lower(www), "api_key") THEN "api_key"
    ELSE Before(LStrip(www, " "), " ")

\* C24: once _process_results has ingested an observation with status 401
\* or 403, the endpoint has auth_required set, and when the response had a
\* WWW-Authenticate header its auth_type_hint is bearer, basic or api_key
\* when that token occurs in the header, else the header's first token.
C24_ObservationSetsAuth ==
    (call.fn = "_process_results" /\ call.arg.status_code \in {401, 403}) =>
        /\ endpoints[UpsertPath].auth_required
        /\ call.arg.www_authenticate # "" =>
              endpoints[UpsertPath].auth_type_hint = SpecHint(call.arg.www_authenticate)

\* a step in which resume() was called for a service without a row or
\* without a previous run
ResumeOfUnknown ==
    /\ call' # call
    /\ call'.fn = "resume"
    /\ \/ call'.arg # ServiceName
       \/ ~ service.exists
       \/ runs = <<>>

\* C25: resume for a service name without a service row, or without a
\* previous run, returns None, creates no run, issues no request and leaves
\* the store unchanged.
C25_ResumeOfUnknownDoesNothing ==
    [][ResumeOfUnknown =>
         /\ call'.out = "None"
         /\ runs' = runs
         /\ request_count' = request_count
         /\ UNCHANGED storeVars
         /\ pc' = pc]_vars

C25_Witness ==
    /\ call = [fn |-> "resume", arg |-> ServiceName, out |-> "None"]
    /\ service.exists
    /\ runs = <<>>

\* C26: a second _normalize_link under the same base URL returns what the
\* first returned, whenever the first did not return None.
C26_NormalizeIdempotent ==
    call.fn = "_normalize_link, again" => call.out = call.arg

\* a link was normalised to /a/a, and that was normalised again
C26_Witness ==
    /\ call.fn = "_normalize_link, again"
    /\ call.arg = "/a/a"
    /\ call.out # ""

\* C27: applying extract_schema to its own result yields the same
\* structure as applying it once.
C27_SchemaRoundTrip ==
    call.fn = "extract_schema, again" => call.out = call.arg

\* the keys of a JSON object, in order
KeysOf(obj) == [i \in 1..Len(obj.kv) |-> obj.kv[i].k]

\* C27, amended: applying extract_schema to its own result yields the
\* schema of that result taken as a JSON object: type object, one property
\* per key of the first schema, and field_count equal to their number; it
\* is never the first schema again.
C27_SchemaOfSchema ==
    call.fn = "extract_schema, again" =>
        /\ KeysOf(call.out) = <<"type", "properties", "field_count">>
        /\ call.out.kv[1].v = JStr("object")
        /\ KeysOf(call.out.kv[2].v) = KeysOf(call.arg)
        /\ call.out.kv[3].v = JInteger(Len(call.arg.kv))
        /\ call.out # call.arg

\* the schema of "abc" went through extract_schema once more
C27_Witness ==
    /\ call.fn = "extract_schema, again"
    /\ call.arg = JObj(<<KV("type", JStr("string")), KV("example_length", JInteger(3))>>)
    /\ call.out.kv[3].v = JInteger(2)

\* the wordlist or pattern prober sends a request
ListRequest(phase, method) ==
    /\ request_count' = request_count + 1
    /\ lastReq'.phase = phase
    /\ lastReq'.method = method
    /\ lastReq'.path = Head(queue)

\* the path at the head of the list is done with: it is reported and known
\* exactly when the last answer has a status above 0 other than 404
ListVerdict ==
    /\ queue' = Tail(queue)
    /\ IF lastReq'.status_code > 0 /\ lastReq'.status_code # 404
       THEN /\ Len(results') = Len(results) + 1
            /\ results'[Len(results')][1] = Head(queue)
            /\ results'[Len(results')][2].status_code = lastReq'.status_code
            /\ known' = known \cup {Head(queue)}
       ELSE /\ results' = results
            /\ known' = known

\* C28: for each path the wordlist or pattern prober probes it sends one
\* HEAD, then one GET exactly when the HEAD was answered 405; the path is
\* reported and becomes known exactly when the final answer has a status
\* above 0 other than 404.
C28_HeadThenGetOn405 ==
    [][\A phase \in {2, 3} :
         /\ (pc = At("loop", phase) /\ request_count' # request_count) =>
               /\ ListRequest(phase, "HEAD")
               /\ IF lastReq'.status_code = 405
                  THEN pc' = At("get", phase) /\ UNCHANGED <<queue, results, known>>
                  ELSE pc' = At("loop", phase) /\ ListVerdict
         /\ (pc = At("get", phase) /\ stop' = stop) =>
               /\ ListRequest(phase, "GET")
               /\ pc' = At("loop", phase)
               /\ ListVerdict]_vars

\* a HEAD was answered 405 and the GET that followed found the path
C28_Witness ==
    /\ lastReq.phase \in {2, 3}
    /\ lastReq.method = "GET"
    /\ lastReq.status_code \notin {0, 404}
    /\ lastReq.path \in known

\* the responses test_methods has received so far
Probed == Range(call.arg)

\* the responses that came back with a status
Answered == {resp \in Probed : resp.status_code > 0}

\* C29: test_methods reports a method as supported exactly when it was
\* probed with a status above 0 outside {404, 405, 501} or is listed in the
\* Allow header of an OPTIONS response with a status above 0; a probe that
\* failed at transport level leaves no status code.
C29_SupportedMethods ==
    pc = At("tm", 4) =>
        /\ tm.supported =
              {resp.method : resp \in {r \in Answered : r.status_code \notin {404, 405, 501}}}
                \cup UNION {AllowTokens(resp.allow) : resp \in {r \in Answered : r.method = "OPTIONS"}}
        /\ tm.status_codes = {<<resp.method, resp.status_code>> : resp \in Answered}

\* GET failed at transport level, OPTIONS was answered 404 with an Allow
\* header that lists POST, and the loop is over
C29_Witness ==
    /\ pc = At("tm", 4)
    /\ tm.todo = <<>>
    /\ config.skip_destructive
    /\ call.arg[1].status_code = 0
    /\ call.arg[3].status_code = 404
    /\ tm.supported = {"GET", "POST"}

\* method probing of the endpoint is over and its result is stored
MethodsTested == pc = At("meth", 4) /\ queue = <<>> /\ call.arg # <<>>

\* the positions of the responses with status 401 or 403
Refusals == {i \in DOMAIN call.arg : call.arg[i].status_code \in {401, 403}}

\* C30: after method probing in which some method was answered 401 or
\* 403, the stored endpoint has auth_required set, and when the
\* WWW-Authenticate header of that response contains Bearer the stored
\* auth_type_hint is bearer.
C30_AuthAfterMethodProbing ==
    MethodsTested =>
        \A i \in Refusals :
            /\ endpoints[UpsertPath].auth_required
            /\ Contains(call.arg[i].www_authenticate, "Bearer") =>
                  endpoints[UpsertPath].auth_type_hint = "bearer"

\* the refusals that carried a WWW-Authenticate header
Challenges == {i \in Refusals : call.arg[i].www_authenticate # ""}

\* C30, amended: after method probing in which some method was answered
\* 401 or 403, the stored endpoint has auth_required set, and when the
\* WWW-Authenticate header of the last such response that carries one
\* contains Bearer the stored auth_type_hint is bearer.
C30_AuthOfLastChallenge ==
    (MethodsTested /\ Refusals # {}) =>
        /\ endpoints[UpsertPath].auth_required
        /\ \A i \in Challenges :
              ((\A j \in Challenges : j <= i)
                 /\ Contains(call.arg[i].www_authenticate, "Bearer"))
                => endpoints[UpsertPath].auth_type_hint = "bearer"

\* GET was answered 403 with a Basic challenge, HEAD 401 with a Bearer
\* challenge, and the row that held the hint basic now holds bearer
C30_Witness ==
    /\ MethodsTested
    /\ Len(call.arg) = 3
    /\ call.arg[1].status_code = 403 /\ call.arg[1].www_authenticate = "Basic realm=x"
    /\ call.arg[2].status_code = 401 /\ call.arg[2].www_authenticate = "Bearer realm=x"
    /\ call.arg[3].status_code = 200
    /\ endpoints[UpsertPath].auth_type_hint = "bearer"

\* C31: _process_results appends a Response row for an observation exactly
\* when its status is successful (200..399) and its body is not empty; an
\* error status or an empty body appends none.
C31_ResponseRowWhenOkAndBody ==
    [][(supplied' # supplied /\ call'.fn = "_process_results") =>
         IF call'.arg.body # "" /\ call'.arg.status_code \in 200..399
         THEN /\ Len(responses') = Len(responses) + 1
              /\ SubSeq(responses', 1, Len(responses)) = responses
              /\ responses'[Len(responses')].endpoint = UpsertPath
              /\ responses'[Len(responses')].status_code = call'.arg.status_code
         ELSE responses' = responses]_vars

\* a 200 with a body gave the first Response row; a 401 with a body gave none
C31_Witness ==
    /\ call.fn = "_process_results"
    /\ call.arg.status_code = 401
    /\ call.arg.body # ""
    /\ Len(responses) = 1
    /\ responses[1].status_code = 200

\* C32: every request of the schema-extraction phase is a GET to a stored
\* endpoint whose method set contains GET, and no endpoint gets a second
\* one: the endpoint leaves the list of those still to visit, in which it
\* stood once.
C32_SchemaGetOnlyForGet ==
    [][(pc = At("schema", 5) /\ request_count' # request_count) =>
         /\ request_count' = request_count + 1
         /\ lastReq'.phase = 5
         /\ lastReq'.method = "GET"
         /\ lastReq'.path = Head(queue)
         /\ Head(queue) \in DOMAIN endpoints
         /\ "GET" \in endpoints[Head(queue)].methods
         /\ queue' = Tail(queue)
         /\ Head(queue) \notin Range(Tail(queue))]_vars

\* phase 5 is over: it fetched an endpoint, and passed over one without GET
C32_Witness ==
    /\ pc = Gate(6)
    /\ lastReq.phase = 5
    /\ \E path \in DOMAIN endpoints : "GET" \notin endpoints[path].methods

\* C33: the link follower runs at most max_depth rounds, none and no
\* request when max_depth is 0; a round begins only with candidates to
\* request, and another round follows only a round that found an endpoint.
C33_LinkRoundsBounded ==
    [][/\ (pc = At("collect", 6) /\ pc' = At("links", 6)) =>
             depth < config.max_depth /\ queue' # <<>>
       /\ (pc = At("links", 6) /\ request_count' # request_count) =>
             depth < config.max_depth /\ lastReq'.phase = 6
       /\ (pc = At("links", 6) /\ pc' # pc) =>
             IF results # <<>>
             THEN pc' = At("collect", 6) /\ depth' = depth + 1
             ELSE pc' = At("return", 6)
       /\ (pc # At("links", 6) /\ lastReq'.phase = 6) => lastReq' = lastReq]_vars

\* two rounds were allowed; the first found an endpoint, the second had no
\* candidates left
C33_Witness ==
    /\ pc = At("return", 6)
    /\ config.max_depth = 2
    /\ depth = 1
    /\ lastReq.phase = 6
    /\ queue = <<>>

\* what the server sends for a well-known path is a specification document
SpecMatches(path, status) ==
    LET reply == Serve(path, "GET")
        data == JsonLoads(reply.body)
    IN  /\ status = reply.status_code
        /\ status \in 200..399
        /\ reply.body # ""
        /\ data # JsonFails
        /\ IsDict(data)
        /\ HasKey(data, "paths") \/ HasKey(data, "swagger") \/ HasKey(data, "openapi")

\* C34: the spec scanner walks the well-known paths in their fixed order:
\* what is left to scan is always a tail of the list, each request is a GET
\* of the first path left, a reply that is successful, non-empty and a
\* mapping with `paths`, `swagger` or `openapi` ends the scan with that
\* document ingested, any other reply moves on to the next path, and no
\* phase-1 request is sent outside the scan
C34_SpecScanInOrder ==
    [][/\ pc = At("scan", 1) =>
            \E i \in 0..Len(SWAGGER_PATHS) :
                queue = SubSeq(SWAGGER_PATHS, i + 1, Len(SWAGGER_PATHS))
       /\ (pc = At("scan", 1) /\ request_count' # request_count) =>
            /\ queue # <<>>
            /\ lastReq'.phase = 1 /\ lastReq'.method = "GET"
            /\ lastReq'.path = Head(queue)
            /\ IF SpecMatches(lastReq'.path, lastReq'.status_code)
               THEN /\ pc' = Gate(2)
                    /\ service'.metadata
                    /\ "/admin" \in DOMAIN endpoints'
               ELSE /\ pc' = pc
                    /\ queue' = Tail(queue)
                    /\ endpoints' = endpoints /\ service' = service
       /\ (pc # At("scan", 1) /\ lastReq'.phase = 1) => lastReq' = lastReq]_vars

\* the second path matched and the third was never asked for
C34_Witness ==
    /\ pc = Gate(2)
    /\ lastReq = [phase |-> 1, method |-> "GET", path |-> "/openapi.json", status_code |-> 200]
    /\ Len(SWAGGER_PATHS) > 2
    /\ service.metadata
    /\ "/admin" \in DOMAIN endpoints


\* C35: an endpoint row is created with the tag of the strategy whose
\* phase is running, and no later step (another strategy's upsert, method
\* probing, a later run) changes the tag of a row that exists
C35_DiscoveredByIsKept ==
    [][\A path \in DOMAIN endpoints' :
          IF path \in DOMAIN endpoints
          THEN endpoints'[path].discovered_by = endpoints[path].discovered_by
          ELSE /\ StrategyOf(pc[2]) # ""
               /\ endpoints'[path].discovered_by = StrategyOf(pc[2])]_vars

\* in the second run, a row of the spec scanner that method probing and a
\* second ingestion of the document have both written to
C35_Witness ==
    /\ Len(runs) = 2
    /\ pc = At("done", 7)
    /\ "/admin" \in DOMAIN endpoints
    /\ endpoints["/admin"].discovered_by = "openapi"
    /\ 401 \in endpoints["/admin"].status_codes
    /\ supplied["/admin"].calls >= 4


\* C36: within one link-following phase no path is requested twice: a
\* request of the phase goes to a path the phase has not requested before
C36_CandidateRequestedOnce ==
    [][(pc = At("links", 6) /\ request_count' # request_count) =>
          lastReq'.path \notin asked]_vars


\* the links, normalised and not yet known, of the bodies the finished
\* rounds of the running link-following phase have fetched
LinksFetched ==
    LET bodies == {all_results[i][2].body : i \in DOMAIN all_results}
        parsed == {JsonLoads(b) : b \in bodies \ {""}} \ {JsonFails}
        links == UNION {_walk_for_links(d, BaseUrl) : d \in parsed}
        paths == {_normalize_link(l, BaseUrl) : l \in links}
    IN  {p \in paths : p # "" /\ p \notin known}

\* C37: link following is iterative in depth: when a round after the first
\* begins within max_depth, every link of a body fetched in the rounds
\* before it is among the round's candidates
C37_LinksOfARoundAreCandidates ==
    [][(pc = At("collect", 6) /\ depth >= 1 /\ depth < config.max_depth /\ pc' # pc) =>
          \A p \in LinksFetched : pc' = At("links", 6) /\ p \in Range(queue')]_vars


\* C38: once resume() has merged the last run's config snapshot, the HTTP
\* worker of the resumed probe waits the merged config's delay_ms between
\* its requests (or the site's crawl delay where that is the longer one)
C38_ResumedWorkerUsesMergedDelay ==
    (call.fn = "resume" /\ call.out = "probe" /\ lastReq.phase >= 0) =>
        delay_ms = IF robots.present /\ robots.loaded /\ RobotsFile.crawl_delay # 0
                   THEN EffectiveDelay(config.delay_ms, RobotsFile.crawl_delay)
                   ELSE config.delay_ms


\* C39: a run that probe has finalized records as total_requests the
\* number of requests the HTTP worker issued during the run; for the one
\* run of a newly constructed orchestrator that is the worker's count
C39_TotalRequestsOfRun ==
    \A i \in DOMAIN runs :
        runs[i].status \in TerminalStatuses => runs[i].total_requests = request_count


\* probe() is over: it has returned, or an exception has left it
ProbeOver == ret # NoReturn

\* C40: every probe call ends with its run finalized: once the call is
\* over, the ProbeRun it created has left `running` for a terminal status
\* (every request of the call returned a response record)
C40_ProbeOverRunFinalized ==
    (ProbeOver /\ ~ raised) => runs[Len(runs)].status \in TerminalStatuses


====
